---- MODULE Spec2Model ----
(***************************************************************************)
(* A model of src/webCrawler/unified_site_snapshot.py: the asset store     *)
(* (map_asset), the CSS rewriter (rewrite_css_urls), the head consolidator *)
(* (consolidate_head_assets), the body rewriter and output writer          *)
(* (process_single_page) and the crawl prefetcher                          *)
(* (prefetch_assets_via_crawl); and of the Range handling of               *)
(* src/shitSend/app.py (parse_range, download).                            *)
(*                                                                         *)
(* Text is modelled structurally.  A path segment or file name is a        *)
(* sequence of string tokens (<<"logo", ".png">> is logo.png), a path is a *)
(* sequence of segments, a URL is a record of its urlsplit parts, and a    *)
(* stylesheet is the sequence of its @import / url() items.                *)
(***************************************************************************)
EXTENDS Integers, Sequences, FiniteSets, TLC

(* ------------------------------ bounds --------------------------------- *)

\* Most elements a start document has: the direct children of its <head>
\* plus the reference-carrying elements of its body.
MaxDoc == 3

\* Largest --max-pages of a crawl.
MaxPages == 2

\* Largest size of the file that /download serves, and largest absolute value
\* of a field of a Range header.
MaxTotal == 3
MaxField == 4

(* ------------------------------- URLs ---------------------------------- *)

\* urlsplit(u): scheme, netloc, path, query, fragment.  `segs` are the path's
\* segments after the leading '/', `trail` says the path string ends in '/'
\* (path "/" is segs = <<>>, trail = TRUE; the empty path is segs = <<>>,
\* trail = FALSE).
Url(scheme, host, segs, trail, query, frag) ==
    [scheme |-> scheme, host |-> host, segs |-> segs, trail |-> trail,
     query |-> query, frag |-> frag]

\* Python's None where a URL is expected.
NoUrl == Url("", "", <<>>, FALSE, "", "")

\* str.lower() on the authorities the model uses.
Lower(host) ==
    CASE host = "SITE.test" -> "site.test"
      [] OTHER -> host

Dot == <<".">>
DotDot == <<"..">>

\* Dot-segment removal shared by posixpath.normpath and urljoin: "." is
\* dropped, ".." pops the previous segment and is dropped at the root.
RECURSIVE RemoveDots(_, _)
RemoveDots(segs, acc) ==
    IF segs = <<>> THEN acc
    ELSE LET s == Head(segs) IN
         IF s = Dot THEN RemoveDots(Tail(segs), acc)
         ELSE IF s = DotDot
              THEN RemoveDots(Tail(segs),
                              IF acc = <<>> THEN acc
                              ELSE SubSeq(acc, 1, Len(acc) - 1))
              ELSE RemoveDots(Tail(segs), Append(acc, s))

\* norm_url mutated: the fragment is kept in the cache key.
NormUrlKeepFragment(u) ==
    LET np == RemoveDots(u.segs, <<>>) IN
    IF u.segs = <<>> /\ ~u.trail
    THEN Url(u.scheme, Lower(u.host), <<Dot>>, FALSE, u.query, u.frag)
    ELSE Url(u.scheme, Lower(u.host), np,
             IF np = <<>> THEN TRUE ELSE u.trail, u.query, u.frag)

\* norm_url: normpath on the path (the empty path becomes "."), a trailing
\* slash put back when normpath dropped it, authority lower-cased, fragment
\* dropped.
norm_url(u) ==
    LET np == RemoveDots(u.segs, <<>>) IN
    IF u.segs = <<>> /\ ~u.trail
    THEN Url(u.scheme, Lower(u.host), <<Dot>>, FALSE, u.query, "")
    ELSE Url(u.scheme, Lower(u.host), np,
             IF np = <<>> THEN TRUE ELSE u.trail, u.query, "")

(* ------------------------------ hrefs ---------------------------------- *)

\* An attribute value or CSS reference as written in the document:
\*   k = "none"     attribute absent or empty
\*   k = "opaque"   data:, javascript:, about: or a pure '#fragment'
\*   k = "protorel" //host/path
\*   k = "abs"      http(s)://...
\*   k = "rel"      anything else, joined onto the base URL; `rooted` says it
\*                  starts with '/'.
Href(k, rooted, u) == [k |-> k, rooted |-> rooted, u |-> u]

NoHref == Href("none", FALSE, NoUrl)
Opaque == Href("opaque", FALSE, NoUrl)
Abs(u) == Href("abs", TRUE, u)
Rooted(segs) == Href("rel", TRUE, Url("", "", segs, FALSE, "", ""))
Relative(segs) == Href("rel", FALSE, Url("", "", segs, FALSE, "", ""))

\* The directory part of a path: everything up to the last '/'.
DirSegs(u) ==
    IF u.trail \/ u.segs = <<>> THEN u.segs
    ELSE SubSeq(u.segs, 1, Len(u.segs) - 1)

\* urljoin(base, href) for a relative reference with a non-empty path.
urljoin(base, h) ==
    LET raw == IF h.rooted THEN h.u.segs ELSE DirSegs(base) \o h.u.segs
        lastDot == raw # <<>> /\ raw[Len(raw)] \in {Dot, DotDot}
        segs == RemoveDots(raw, <<>>)
    IN Url(base.scheme, base.host, segs,
           IF segs = <<>> THEN TRUE ELSE (h.u.trail \/ lastDot),
           h.u.query, h.u.frag)

\* absolutize(base, href): None for an absent, empty or non-fetchable href.
absolutize(base, h) ==
    CASE h.k \in {"none", "opaque"} -> NoUrl
      [] h.k = "protorel" ->
            Url(base.scheme, h.u.host, h.u.segs, h.u.trail, h.u.query, h.u.frag)
      [] h.k = "abs" -> h.u
      [] OTHER -> urljoin(base, h)

(* ------------------------------ the site ------------------------------- *)

SiteUrl(segs) == Url("https", "site.test", segs, FALSE, "", "")

\* One @import or url() occurrence of a stylesheet's text:
\*   form = "import_url"     @import url(<href>);
\*   form = "import_quoted"  @import "<href>";
\*   form = "url"            url(<href>)
Item(form, href) == [form |-> form, href |-> href]

S_CSS == SiteUrl(<< <<"css">>, <<"s", ".css">> >>)
T_CSS == SiteUrl(<< <<"css">>, <<"t", ".css">> >>)
BG_PNG == SiteUrl(<< <<"css">>, <<"bg", ".png">> >>)
A_PNG == SiteUrl(<< <<"a", ".png">> >>)
LOGO_IMG == SiteUrl(<< <<"img">>, <<"logo", ".png">> >>)
LOGO_CDN == SiteUrl(<< <<"cdn">>, <<"logo", ".png">> >>)
FAVICON == SiteUrl(<< <<"favicon", ".ico">> >>)
M_WASM == SiteUrl(<< <<"m", ".wasm">> >>)
ICON_CSS == SiteUrl(<< <<"css">>, <<"favicon", ".css">> >>)
A_JS == SiteUrl(<< <<"a", ".js">> >>)

\* A page of the site other than the start page, and robots.txt.
P1 == SiteUrl(<< <<"p1">> >>)
ROBOTS == SiteUrl(<< <<"robots", ".txt">> >>)

\* The content type and, for a stylesheet, the items of each asset the site
\* serves, by canonical URL.  s.css imports t.css and t.css imports s.css;
\* favicon.css imports itself.  /a.png?v=2 and /a.png/ are resources of their
\* own beside /a.png.
Resource(ctype, items) == [ctype |-> ctype, items |-> items]

SiteAssets ==
    {S_CSS, T_CSS, BG_PNG, A_PNG, LOGO_IMG, LOGO_CDN, FAVICON, M_WASM, A_JS, ICON_CSS,
     [A_PNG EXCEPT !.query = "v=2"], [A_PNG EXCEPT !.trail = TRUE]}

\* Everything the site can answer for, the start page aside.
SiteUrls == SiteAssets \cup {P1, ROBOTS}

Site(u) ==
    CASE u = S_CSS -> Resource("text/css",
                        << Item("import_url", Relative(<< <<"t", ".css">> >>)),
                           Item("url", Relative(<< <<"bg", ".png">> >>)) >>)
      [] u = T_CSS -> Resource("text/css",
                        << Item("import_quoted", Relative(<< <<"s", ".css">> >>)) >>)
      [] u = ICON_CSS -> Resource("text/css",
                           << Item("import_quoted", Relative(<< <<"favicon", ".css">> >>)),
                              Item("url", Relative(<< <<"bg", ".png">> >>)) >>)
      [] u \in {BG_PNG, A_PNG, LOGO_IMG, LOGO_CDN} -> Resource("image/png", <<>>)
      [] u \in {[A_PNG EXCEPT !.query = "v=2"], [A_PNG EXCEPT !.trail = TRUE]} ->
            Resource("image/png", <<>>)
      [] u = FAVICON -> Resource("image/x-icon", <<>>)
      [] u = M_WASM -> Resource("application/wasm", <<>>)
      [] u = A_JS -> Resource("application/javascript", <<>>)
      [] u = P1 -> Resource("text/html", <<>>)
      [] u = ROBOTS -> Resource("text/plain", <<>>)
      [] OTHER -> Resource("", <<>>)

(* --------------------------- bundle layout ----------------------------- *)

\* ensure_dirs: the folders of the bundle, as paths relative to its root.
FolderCss == << <<"assets">>, <<"css">> >>
FolderJs == << <<"assets">>, <<"js">> >>
FolderJsOther == << <<"assets">>, <<"js">>, <<"other">> >>
FolderMedia == << <<"assets">>, <<"media">> >>
FolderFavicon == << <<"assets">>, <<"media">>, <<"favicon">> >>
FolderImages == << <<"assets">>, <<"media">>, <<"uploads">>, <<"images">> >>

IndexHtml == << <<"index", ".html">> >>
StylesCss == Append(FolderCss, <<"styles", ".css">>)
MainJs == Append(FolderJs, <<"main", ".js">>)

\* Python's None where a bundle-relative path is expected.
NoPath == <<>>

(* ---------------------------- asset store ------------------------------ *)

\* mimetypes.guess_extension on the content types the site serves ('' when
\* the type maps to no extension); with no content type, the URL's suffix.
guess_ext(ctype, u) ==
    CASE ctype = "image/png" -> ".png"
      [] ctype = "text/css" -> ".css"
      [] ctype = "application/wasm" -> ".wasm"
      [] ctype = "application/javascript" -> ".js"
      [] ctype = "text/html" -> ".html"
      [] ctype = "text/plain" -> ".txt"
      [] OTHER -> ""

\* os.path.basename(urlsplit(u).path): empty when the path ends in '/'.
Basename(u) ==
    IF u.trail \/ u.segs = <<>> THEN <<>> ELSE u.segs[Len(u.segs)]

IsExtToken(t) == t \in {".png", ".css", ".wasm", ".js", ".ico", ".html", ".txt"}

\* os.path.splitext of a file name: (stem, suffix).
SplitExt(name) ==
    IF Len(name) >= 2 /\ IsExtToken(name[Len(name)])
    THEN [stem |-> SubSeq(name, 1, Len(name) - 1), suffix |-> <<name[Len(name)]>>]
    ELSE [stem |-> name, suffix |-> <<>>]

\* any(x in name for x in ['favicon', 'apple-touch-icon', 'mstile'])
IsIconName(name) ==
    \E i \in 1..Len(name) : name[i] \in {"favicon", "apple-touch-icon", "mstile"}

IsImageType(ctype) == ctype \in {"image/png", "image/x-icon"}

\* A destination chosen by content type alone.
DestDirByTypeOnly(u, ctype) ==
    IF IsImageType(ctype) THEN FolderImages ELSE FolderMedia

\* The destination folder of map_asset.
DestDir(u, ctype) ==
    IF IsIconName(Basename(u)) THEN FolderFavicon
    ELSE IF IsImageType(ctype) THEN FolderImages
    ELSE FolderMedia

\* The "asset_<sha1[:12]>" stem of a URL without a basename.
HashToken(u) == IF u.segs = <<>> THEN "asset_root" ELSE "asset_dir"

\* The file name map_asset starts from: the URL's basename, the extension
\* appended when the basename lacks it.
BaseName(u, ctype) ==
    LET base == Basename(u)
        ext == guess_ext(ctype, u)
    IN IF base = <<>>
       THEN IF ext = "" THEN <<HashToken(u)>> ELSE <<HashToken(u), ext>>
       ELSE IF ext # "" /\ base[Len(base)] # ext THEN Append(base, ext)
       ELSE base

\* The "_<i>" that the collision loop puts before the suffix.
CollisionToken(i) ==
    CASE i = 1 -> "_1" [] i = 2 -> "_2" [] i = 3 -> "_3" [] i = 4 -> "_4"
      [] i = 5 -> "_5" [] i = 6 -> "_6" [] i = 7 -> "_7" [] i = 8 -> "_8"

\* map_asset's collision loop mutated: the first candidate is taken whether or
\* not a file is already there.
FreePathNoCheck(dir, name, existing) == Append(dir, name)

\* map_asset's collision loop: the first of name, stem_1suffix, stem_2suffix,
\* ... at which no file exists.
RECURSIVE FreeFrom(_, _, _, _)
FreeFrom(dir, sp, i, existing) ==
    LET cand == Append(dir, Append(sp.stem, CollisionToken(i)) \o sp.suffix) IN
    IF cand \in existing THEN FreeFrom(dir, sp, i + 1, existing) ELSE cand

FreePath(dir, name, existing) ==
    IF Append(dir, name) \in existing
    THEN FreeFrom(dir, SplitExt(name), 1, existing)
    ELSE Append(dir, name)

\* A piece of text: where it came from (`src` for fetched text, `id` for an
\* inline fragment of the document) and its @import / url() items.
Text(src, id, items) == [src |-> src, id |-> id, items |-> items]

EmptyMap == [x \in {} |-> NoPath]

\* The state map_asset works on: State.asset_map, the files of the output
\* directory (path -> fragments of text), the transport's log of requested
\* URLs, and the URLs known to answer (`up`) or to fail (`dn`).
\* `rewriting` holds the stylesheets whose rewrite_css_urls call is running,
\* `events` the log of what map_asset did with stylesheets (see CssEvent).
Store(asset_map, files, fetched, up, dn) ==
    [asset_map |-> asset_map, files |-> files, fetched |-> fetched,
     up |-> up, dn |-> dn, rewriting |-> {}, events |-> <<>>]

\* One entry of the log, for the stylesheet of canonical URL c:
\*   ev = "rewritten"  write_file(local_path, css_text, text=True) has run;
\*   ev = "early"      the cache hit returned its path while its own
\*                     rewrite_css_urls call had not returned yet.
CssEvent(ev, c) == [ev |-> ev, url |-> c]

\* Whether the transport answers a GET of canonical URL c with a 2xx.  A URL
\* answers the same way during the whole build; `orc` decides for the URLs
\* not requested before (the ones in it answer), and a URL the site does
\* not serve never answers.
FetchOk(st, orc, c) ==
    IF c \in st.up THEN TRUE
    ELSE IF c \in st.dn THEN FALSE
    ELSE c \in SiteUrls /\ c \in orc

\* fetch(state, url, timeout): one GET, (None, None) on any exception.
Fetched(st, u, ok) ==
    [ok |-> ok,
     st |-> [st EXCEPT !.fetched = Append(@, u),
                       !.up = IF ok THEN @ \cup {norm_url(u)} ELSE @,
                       !.dn = IF ok THEN @ ELSE @ \cup {norm_url(u)}]]

Fetch(st, orc, u) == Fetched(st, u, FetchOk(st, orc, norm_url(u)))

\* The replacement text url('../../<mapped>').
UpUp(mapped) == Relative(<<DotDot, DotDot>> \o mapped)

IsCss(ctype, path) ==
    ctype = "text/css" \/ SplitExt(path[Len(path)]).suffix = <<".css">>

RECURSIVE map_asset(_, _, _)
RECURSIVE ImportPass(_, _, _, _, _)
RECURSIVE import_repl(_, _, _, _, _)
RECURSIVE UrlPass(_, _, _, _, _)
RECURSIVE url_repl(_, _, _, _, _)
RECURSIVE UrlPassAfter(_, _, _)
RECURSIVE rewrite_css_urls(_, _, _, _)
RECURSIVE StoreFetched(_, _, _, _, _)
RECURSIVE AfterFetch(_, _, _)

\* AT_IMPORT_RE.sub(import_repl, css_text): the @import items from index i
\* on, in text order; r is what map_asset returned for item i.
import_repl(r, orc, items, base, i) ==
    ImportPass(r.st, orc,
               IF r.rel = NoPath THEN items
               ELSE [items EXCEPT ![i] = Item("import_url", UpUp(r.rel))],
               base, i + 1)

ImportPass(st, orc, items, base, i) ==
    IF i > Len(items) THEN [st |-> st, items |-> items]
    ELSE IF \/ items[i].form \notin {"import_url", "import_quoted"}
            \/ absolutize(base, items[i].href) = NoUrl
    THEN ImportPass(st, orc, items, base, i + 1)
    ELSE import_repl(map_asset(st, orc, absolutize(base, items[i].href)),
                     orc, items, base, i)

\* CSS_URL_RE.sub(url_repl, css_text): the url(...) occurrences from index i
\* on, those of plain url() values and those inside "@import url(...);"
\* rules, replaced or not; r is what map_asset returned for item i.
url_repl(r, orc, items, base, i) ==
    UrlPass(r.st, orc,
            IF r.rel = NoPath THEN items
            ELSE [items EXCEPT ![i] = Item(items[i].form, UpUp(r.rel))],
            base, i + 1)

UrlPass(st, orc, items, base, i) ==
    IF i > Len(items) THEN [st |-> st, items |-> items]
    ELSE IF \/ items[i].form \notin {"url", "import_url"}
            \/ absolutize(base, items[i].href) = NoUrl
    THEN UrlPass(st, orc, items, base, i + 1)
    ELSE url_repl(map_asset(st, orc, absolutize(base, items[i].href)),
                  orc, items, base, i)

UrlPassAfter(p1, orc, base) == UrlPass(p1.st, orc, p1.items, base, 1)

\* rewrite_css_urls: the @import pass, then the url() pass over its result.
rewrite_css_urls(st, orc, items, base) ==
    UrlPassAfter(ImportPass(st, orc, items, base, 1), orc, base)

\* write_file(local_path, ...): the file at `path` now holds `items`.
WriteFile(st, path, c, items) ==
    [st EXCEPT !.files = (path :> <<Text(c, 0, items)>>) @@ @]

\* write_file(local_path, css_text, text=True) after the rewrite.
Overwrite(rw, path, c) ==
    [st |-> [WriteFile(rw.st, path, c, rw.items) EXCEPT
                !.rewriting = @ \ {c},
                !.events = Append(@, CssEvent("rewritten", c))],
     rel |-> path]

\* state.asset_map[abs_url] = rel
Record(st, c, path) == [st EXCEPT !.asset_map = (c :> path) @@ @]

\* map_asset once the bytes are there: write them, record the path and, for
\* a stylesheet, rewrite the file in place.
StoreFetched(st, orc, c, res, path) ==
    IF IsCss(res.ctype, path)
    THEN Overwrite(rewrite_css_urls([Record(WriteFile(st, path, c, res.items), c, path)
                                        EXCEPT !.rewriting = @ \cup {c}],
                                    orc, res.items, c),
                   path, c)
    ELSE [st |-> Record(WriteFile(st, path, c, res.items), c, path), rel |-> path]

\* map_asset that, when the fetch failed, still writes an empty file and
\* records it.
AfterFetchRecordingFailure(f, orc, c) ==
    IF ~f.ok
    THEN [st |-> Record(WriteFile(f.st, Append(FolderMedia, <<"failed">>), c, <<>>),
                        c, Append(FolderMedia, <<"failed">>)),
          rel |-> NoPath]
    ELSE StoreFetched(f.st, orc, c, Site(c),
                      FreePath(DestDir(c, Site(c).ctype), BaseName(c, Site(c).ctype),
                               DOMAIN f.st.files))

\* map_asset after fetch: None when it failed, else the destination folder,
\* the file name and the first free path.
AfterFetch(f, orc, c) ==
    IF ~f.ok THEN [st |-> f.st, rel |-> NoPath]
    ELSE StoreFetched(f.st, orc, c, Site(c),
                      FreePath(DestDir(c, Site(c).ctype), BaseName(c, Site(c).ctype),
                               DOMAIN f.st.files))

\* map_asset whose cache answers only for a stylesheet that is being
\* rewritten: any other URL is fetched and stored again.
MapAssetCacheInCycleOnly(st, orc, abs_url) ==
    IF norm_url(abs_url) \in DOMAIN st.asset_map /\ norm_url(abs_url) \in st.rewriting
    THEN [st |-> [st EXCEPT !.events = Append(@, CssEvent("early", norm_url(abs_url)))],
          rel |-> st.asset_map[norm_url(abs_url)]]
    ELSE AfterFetch(Fetch(st, orc, norm_url(abs_url)), orc, norm_url(abs_url))

\* map_asset: [st |-> the store afterwards, rel |-> the path returned, NoPath
\* for None].
map_asset(st, orc, abs_url) ==
    IF norm_url(abs_url) \in DOMAIN st.asset_map
    THEN [st |-> IF norm_url(abs_url) \in st.rewriting
                 THEN [st EXCEPT !.events = Append(@, CssEvent("early", norm_url(abs_url)))]
                 ELSE st,
          rel |-> st.asset_map[norm_url(abs_url)]]
    ELSE AfterFetch(Fetch(st, orc, norm_url(abs_url)), orc, norm_url(abs_url))

\* "if absu: mapped = map_asset(...)": what every caller does with the
\* result of absolutize.
MapIfUrl(st, orc, absu) ==
    IF absu = NoUrl THEN [st |-> st, rel |-> NoPath] ELSE map_asset(st, orc, absu)

\* The site URLs a localization of the URLs in `todo` can request: the URLs
\* themselves and, through stylesheets, everything they reference.
RECURSIVE Reach(_, _)
Reach(todo, seen) ==
    IF todo \subseteq seen THEN seen
    ELSE LET u == CHOOSE x \in todo \ seen : TRUE
             refs == {norm_url(absolutize(u, Site(u).items[i].href)) :
                        i \in 1..Len(Site(u).items)}
         IN Reach((todo \cup refs) \ {u}, seen \cup {u})

(* ----------------------------- documents ------------------------------- *)

\* A direct child of <head>.  `id` is its position among the children; the
\* text of an inline <style> or <script> is identified by it.  The href of a
\* <style> is the reference of the url(...) its text holds, NoHref when the
\* text holds none.
HeadEl(tag, rels, href, typ) ==
    [tag |-> tag, rels |-> rels, href |-> href, typ |-> typ, id |-> 0]

\* The children a start document's head is built from.
HeadKinds ==
    { HeadEl("style", {}, NoHref, ""),
      HeadEl("link", {"stylesheet"}, Rooted(S_CSS.segs), ""),
      HeadEl("link", {"stylesheet"}, NoHref, ""),
      HeadEl("link", {"icon"}, Rooted(FAVICON.segs), ""),
      HeadEl("script", {}, NoHref, ""),
      HeadEl("script", {}, Rooted(A_JS.segs), ""),
      HeadEl("script", {}, Rooted(M_WASM.segs), ""),
      HeadEl("script", {}, Rooted(M_WASM.segs), "application/wasm") }

\* One "url descriptor" entry of a srcset attribute.
SrcsetEntry(url, desc) == [url |-> url, desc |-> desc]

\* An element of the body that carries references; the href of an <a> is
\* held in `src`.
BodyEl(tag, src, srcset, poster) ==
    [tag |-> tag, src |-> src, srcset |-> srcset, poster |-> poster, id |-> 0]

\* The elements a start document's body is built from.  The second <img>
\* names a.png through a URL with another spelling of the same canonical form.
BodyKinds ==
    { BodyEl("img", Rooted(A_PNG.segs), <<>>, NoHref),
      BodyEl("img",
             Abs(Url("https", "SITE.test", << Dot, <<"a", ".png">> >>, FALSE, "", "top")),
             <<>>, NoHref),
      BodyEl("img", NoHref,
             << SrcsetEntry(Rooted(LOGO_IMG.segs), "1x"),
                SrcsetEntry(Rooted(LOGO_CDN.segs), "2x") >>, NoHref),
      BodyEl("source", Rooted(LOGO_CDN.segs), <<>>, NoHref),
      BodyEl("video", Rooted(A_PNG.segs), <<>>, Rooted(LOGO_IMG.segs)),
      BodyEl("base", NoHref, <<>>, NoHref),
      BodyEl("a", Rooted(P1.segs), <<>>, NoHref) }

\* The sequences over `kinds` of length at most n, each element given its
\* position as id.
SeqsUpTo(kinds, n) ==
    UNION { { [i \in 1..k |-> [f[i] EXCEPT !.id = i]] : f \in [1..k -> kinds] } :
            k \in 0..n }

\* opts.url, which is also the base URL that references are resolved against.
StartUrl == Url("https", "site.test", <<>>, TRUE, "", "")

(* ------------------------------- state --------------------------------- *)

VARIABLES
    opts,         \* Options: mode, max_pages, respect_robots, ...
    doc,          \* the start document the server returns: [head, body]
    pc,           \* where main is
    exit_code,    \* main's return value, -1 while it runs
    asset_map,    \* State.asset_map
    css_events,   \* what map_asset has done with stylesheets, in order
    files,        \* the files under opts.out_dir
    fetched,      \* the URLs the transport was asked for, in order
    up,           \* canonical URLs that have answered
    dn,           \* canonical URLs that have failed
    head,         \* the children of <head> in the tree
    cons,         \* the locals of consolidate_head_assets
    body,         \* the reference-carrying elements of the tree's body
    bi,           \* how many body elements the current find_all loop has passed
    html_out,     \* <<the tree written to index.html>>, <<>> before
    to_visit,     \* State.to_visit of the crawl
    visited,      \* State.visited of the crawl
    pages,        \* the crawl loop's count of pages fetched
    dequeued,     \* the URLs to_visit.pop(0) has returned, in order
    first,        \* <<the outputs of an earlier build into out_dir>>, <<>> if none
    download      \* a /download request of src/shitSend/app.py and its answer,
                  \* <<>> where none is made

vars == <<opts, doc, download, pc, exit_code, asset_map, css_events, files, fetched, up, dn, head, cons,
          body, bi, html_out, to_visit, visited, pages, dequeued, first, download>>

crawlVars == <<to_visit, visited, pages, dequeued>>

storeVars == <<asset_map, files, fetched, up, dn, css_events>>

Cur == [Store(asset_map, files, fetched, up, dn) EXCEPT !.events = css_events]

SetStore(st) ==
    /\ asset_map' = st.asset_map
    /\ css_events' = st.events
    /\ files' = st.files
    /\ fetched' = st.fetched
    /\ up' = st.up
    /\ dn' = st.dn

\* The choices of an oracle for a step that may localize the URLs in `urls`.
Oracles(urls) ==
    SUBSET ((Reach({norm_url(u) : u \in urls \ {NoUrl}}, {}) \cap SiteUrls)
            \ (up \cup dn))

ConsInit ==
    [i |-> 1, saw_css_link |-> FALSE, saw_js_src |-> FALSE,
     css_pre |-> <<>>, css_external |-> <<>>, css_post |-> <<>>,
     js_pre |-> <<>>, js_external |-> <<>>, js_post |-> <<>>,
     extra_script_srcs |-> <<>>, css_final |-> <<>>, js_final |-> <<>>]

\* The start documents of at most n elements.  `has_head` says whether the
\* parsed tree has a <head> element (soup.head is not None); a tree without
\* one has no head children.
Docs(n) ==
    UNION { [head : SeqsUpTo(HeadKinds, h), body : SeqsUpTo(BodyKinds, n - h),
             has_head : {TRUE}] :
            h \in 0..n }

InitRest ==
    /\ pc = "start"
    /\ exit_code = -1
    /\ asset_map = EmptyMap
    /\ css_events = <<>>
    /\ files = [x \in {} |-> <<>>]
    /\ fetched = <<>>
    /\ up = {}
    /\ dn = {}
    /\ head = <<>>
    /\ cons = ConsInit
    /\ body = <<>>
    /\ bi = 0
    /\ html_out = <<>>
    /\ to_visit = <<>>
    /\ visited = {}
    /\ pages = 0
    /\ dequeued = <<>>
    /\ first = <<>>

\* main in mode 'single', on any start document within the bounds.
Init ==
    /\ opts = [mode |-> "single", max_pages |-> 0, respect_robots |-> TRUE,
               follow_subdomains |-> FALSE, restrict_path_prefix |-> <<>>]
    /\ doc \in Docs(MaxDoc)
    /\ download = <<>>
    /\ InitRest

(* ------------------- process_single_page: first fetch ------------------ *)

\* session.get(opts.url) answers: the document is parsed into the tree.
StartFetchOk ==
    /\ pc = "start"
    /\ StartUrl \notin dn
    /\ pc' = "head"
    /\ fetched' = Append(fetched, StartUrl)
    /\ up' = up \cup {StartUrl}
    /\ head' = doc.head
    /\ body' = doc.body
    /\ UNCHANGED <<opts, doc, download, exit_code, asset_map, css_events, files, dn, cons, bi, html_out, crawlVars, first>>

\* An exit status that reports success whatever was raised.
ReturnCodeAlwaysZero(raised) == 0

\* main's return value: 0 when nothing was raised, 2 for an HTTPError, 1 for
\* any other exception.
ReturnCode(raised) ==
    IF raised = "none" THEN 0 ELSE IF raised = "HTTPError" THEN 2 ELSE 1

\* session.get raises or raise_for_status raises; the exception reaches main.
StartFetchFails ==
    /\ pc = "start"
    /\ StartUrl \notin up
    /\ pc' = "aborted"
    /\ fetched' = Append(fetched, StartUrl)
    /\ dn' = dn \cup {StartUrl}
    /\ \E raised \in {"HTTPError", "Exception"} : exit_code' = ReturnCode(raised)
    /\ UNCHANGED <<opts, doc, download, asset_map, css_events, files, up, head, cons, body, bi, html_out, crawlVars, first>>

(* ---------------------- consolidate_head_assets ------------------------ *)

\* The child the loop over list(head.children) is at.
InHead == pc = "head" /\ cons.i <= Len(doc.head)
El == doc.head[cons.i]

\* el.decompose()
Decompose(tree, id) == SelectSeq(tree, LAMBDA e : e.id # id)

IconRels == {"icon", "shortcut", "apple-touch-icon", "mask-icon"}

IsStylesheetLink(el) ==
    el.tag = "link" /\ "stylesheet" \in el.rels /\ el.href.k # "none"

IsIconLink(el) ==
    el.tag = "link" /\ ~IsStylesheetLink(el) /\ el.rels \cap IconRels # {}

headFrame == <<opts, doc, download, pc, exit_code, body, bi, html_out, crawlVars, first>>

\* <link rel="stylesheet" href=...>: localized, its file's text appended to
\* css_external; the element is removed whether or not that worked.
StylesheetLinkMapped(r) ==
    /\ SetStore(r.st)
    /\ cons' = IF r.rel = NoPath THEN [cons EXCEPT !.i = @ + 1]
               ELSE [cons EXCEPT !.i = @ + 1,
                                 !.css_external = @ \o r.st.files[r.rel],
                                 !.saw_css_link = TRUE]

HeadStylesheetLink ==
    /\ InHead /\ IsStylesheetLink(El)
    /\ \E orc \in Oracles({absolutize(StartUrl, El.href)}) :
         StylesheetLinkMapped(MapIfUrl(Cur, orc, absolutize(StartUrl, El.href)))
    /\ head' = Decompose(head, El.id)
    /\ UNCHANGED headFrame

\* <link rel="icon" href=...>: kept, its href rewritten when localized.
IconLinkMapped(r) ==
    /\ SetStore(r.st)
    /\ head' = IF r.rel = NoPath THEN head
               ELSE [k \in 1..Len(head) |->
                       IF head[k].id = El.id
                       THEN [head[k] EXCEPT !.href = Relative(r.rel)]
                       ELSE head[k]]

HeadIconLink ==
    /\ InHead /\ IsIconLink(El)
    /\ \E orc \in Oracles({absolutize(StartUrl, El.href)}) :
         IconLinkMapped(MapIfUrl(Cur, orc, absolutize(StartUrl, El.href)))
    /\ cons' = [cons EXCEPT !.i = @ + 1]
    /\ UNCHANGED headFrame

\* el.string of a <style>: the text as the page has it.
StyleText(el) ==
    Text(NoUrl, el.id, IF el.href = NoHref THEN <<>> ELSE <<Item("url", el.href)>>)

\* <style>: its text goes to css_post once a stylesheet link was localized,
\* to css_pre before; the element is removed.
HeadStyle ==
    /\ InHead /\ El.tag = "style"
    /\ cons' = IF cons.saw_css_link
               THEN [cons EXCEPT !.i = @ + 1,
                                 !.css_post = Append(@, StyleText(El))]
               ELSE [cons EXCEPT !.i = @ + 1,
                                 !.css_pre = Append(@, StyleText(El))]
    /\ head' = Decompose(head, El.id)
    /\ UNCHANGED <<headFrame, storeVars>>

JsTypes ==
    {"", "text/javascript", "application/javascript", "module",
     "text/ecmascript", "application/ecmascript"}

\* 'javascript' in mime or mime.startswith('text/') or typ in (...)
is_texty(mime, typ) ==
    \/ mime \in {"application/javascript", "text/javascript"}
    \/ mime \in {"text/css", "text/javascript", "text/html", "text/plain"}
    \/ typ \in JsTypes

\* A texty script: its text goes to js_pre or js_post, and to js_external.
AppendJs(js_text) ==
    IF cons.saw_js_src
    THEN [cons EXCEPT !.i = @ + 1,
                      !.js_post = Append(@, js_text),
                      !.js_external = Append(@, js_text),
                      !.saw_js_src = TRUE]
    ELSE [cons EXCEPT !.i = @ + 1,
                      !.js_pre = Append(@, js_text),
                      !.js_external = Append(@, js_text),
                      !.saw_js_src = TRUE]

\* A script that is not texty: localized, its path kept as an extra script.
ExtraScriptMapped(r) ==
    /\ SetStore(r.st)
    /\ cons' = [cons EXCEPT !.i = @ + 1,
                            !.extra_script_srcs =
                               IF r.rel = NoPath THEN @ ELSE Append(@, r.rel),
                            !.saw_js_src = TRUE]

ScriptFetched(f, orc, absu) ==
    IF ~f.ok
    THEN /\ cons' = [cons EXCEPT !.i = @ + 1]
         /\ SetStore(f.st)
    ELSE IF is_texty(Site(norm_url(absu)).ctype, El.typ)
    THEN /\ cons' = AppendJs(Text(norm_url(absu), 0, <<>>))
         /\ SetStore(f.st)
    ELSE ExtraScriptMapped(map_asset(f.st, orc, absu))

\* <script src=...>: fetched directly.  A texty one has its text appended to
\* js_pre or js_post and to js_external; any other is localized by map_asset
\* and its path kept in extra_script_srcs.  The element is removed.
HeadExternalScript ==
    /\ InHead /\ El.tag = "script" /\ El.href.k # "none"
    /\ \E orc \in Oracles({absolutize(StartUrl, El.href)}) :
         IF absolutize(StartUrl, El.href) = NoUrl
         THEN /\ cons' = [cons EXCEPT !.i = @ + 1]
              /\ UNCHANGED storeVars
         ELSE ScriptFetched(Fetch(Cur, orc, absolutize(StartUrl, El.href)), orc,
                            absolutize(StartUrl, El.href))
    /\ head' = Decompose(head, El.id)
    /\ UNCHANGED headFrame

\* <script> without src: its text goes to js_post once an external script
\* was fetched, to js_pre before; the element is removed.
HeadInlineScript ==
    /\ InHead /\ El.tag = "script" /\ El.href.k = "none"
    /\ cons' = IF cons.saw_js_src
               THEN [cons EXCEPT !.i = @ + 1,
                                 !.js_post = Append(@, Text(NoUrl, El.id, <<>>))]
               ELSE [cons EXCEPT !.i = @ + 1,
                                 !.js_pre = Append(@, Text(NoUrl, El.id, <<>>))]
    /\ head' = Decompose(head, El.id)
    /\ UNCHANGED <<headFrame, storeVars>>

\* Any other child, and a <link> that is neither a stylesheet link with an
\* href nor an icon link: kept as it is.
HeadOther ==
    /\ InHead
    /\ El.tag \notin {"style", "script"}
    /\ ~IsStylesheetLink(El) /\ ~IsIconLink(El)
    /\ cons' = [cons EXCEPT !.i = @ + 1]
    /\ UNCHANGED <<headFrame, storeVars, head>>

\* The <link> to styles.css and the <script> for main.js.
LinkTag == [HeadEl("link", {"stylesheet"}, Relative(StylesCss), "") EXCEPT !.id = -1]
ScriptTag == [HeadEl("script", {}, Relative(MainJs), "") EXCEPT !.id = -2]

\* A composition that puts the external group first.
ComposeExternalFirst(pre, external, post) == external \o pre \o post

\* [*pre, *external, *post], the fragments that are joined into one text.
Compose(pre, external, post) == pre \o external \o post

\* After the loop: the two texts are composed and the two tags appended to
\* `head`, which is "soup.head or soup.new_tag('head')": a tag made by
\* new_tag is not part of the tree, and what is appended to it is not either.
HeadCompose ==
    /\ pc = "head" /\ cons.i > Len(doc.head)
    /\ cons' = [cons EXCEPT
                  !.css_final = Compose(cons.css_pre, cons.css_external, cons.css_post),
                  !.js_final = Compose(cons.js_pre, cons.js_external, cons.js_post)]
    /\ head' = IF doc.has_head THEN head \o <<LinkTag, ScriptTag>> ELSE head
    /\ pc' = "img"
    /\ bi' = 0
    /\ UNCHANGED <<opts, doc, download, exit_code, storeVars, body, html_out, crawlVars, first>>

(* ----------------- process_single_page: body and output ---------------- *)

\* map_attr: the attribute's value after the call (a localized path when
\* the URL resolves and is localized, the old value otherwise).
AttrMapped(r, val) ==
    [st |-> r.st, val |-> IF r.rel = NoPath THEN val ELSE Relative(r.rel)]

map_attr(st, orc, val) ==
    AttrMapped(MapIfUrl(st, orc, absolutize(StartUrl, val)), val)

\* rewrite_srcset over the entries from index i on: each URL localized on
\* its own, the descriptor kept; m is the outcome for entry i.
RECURSIVE rewrite_srcset(_, _, _, _)
RECURSIVE SrcsetEntryMapped(_, _, _, _)
\* An entry written back without its descriptor.
SrcsetEntryNoDescriptor(m, orc, entries, i) ==
    rewrite_srcset(m.st, orc, [entries EXCEPT ![i] = SrcsetEntry(m.val, "")], i + 1)

SrcsetEntryMapped(m, orc, entries, i) ==
    rewrite_srcset(m.st, orc,
                   [entries EXCEPT ![i] = SrcsetEntry(m.val, entries[i].desc)],
                   i + 1)

rewrite_srcset(st, orc, entries, i) ==
    IF i > Len(entries) THEN [st |-> st, val |-> entries]
    ELSE SrcsetEntryMapped(map_attr(st, orc, entries[i].url), orc, entries, i)

\* The three find_all loops of process_single_page, in order.
PassNo(p) == CASE p = "img" -> 1 [] p = "source" -> 2 [] p = "video" -> 3 [] OTHER -> 0
PassTags(n) == CASE n = 1 -> {"img", "iframe"} [] n = 2 -> {"source"} [] OTHER -> {"video"}

\* The (loop, element) pairs still to come, and the next of them.
WorkLeft ==
    { w \in (PassNo(pc)..3) \X (1..Len(body)) :
        /\ body[w[2]].tag \in PassTags(w[1])
        /\ (w[1] > PassNo(pc) \/ w[2] > bi) }

NextWork ==
    CHOOSE w \in WorkLeft :
        \A v \in WorkLeft : w[1] < v[1] \/ (w[1] = v[1] /\ w[2] <= v[2])

InBody == pc \in {"img", "source", "video"}

Urls(el) ==
    {absolutize(StartUrl, el.src), absolutize(StartUrl, el.poster)}
    \cup {absolutize(StartUrl, el.srcset[k].url) : k \in 1..Len(el.srcset)}

bodyFrame == <<opts, doc, download, exit_code, head, cons, html_out, crawlVars, first>>

\* The element the loops are at has its attributes set; the store is b.st.
AttrsRewritten(k, src, b, poster) ==
    /\ SetStore(b.st)
    /\ body' = [body EXCEPT ![k] = [@ EXCEPT !.src = src, !.srcset = b.val,
                                             !.poster = poster]]
    /\ bi' = k

SrcsetAfter(a, orc, k) ==
    AttrsRewritten(k, a.val,
                   IF body[k].srcset # <<>>
                   THEN rewrite_srcset(a.st, orc, body[k].srcset, 1)
                   ELSE [st |-> a.st, val |-> body[k].srcset],
                   body[k].poster)

\* One <img>, <iframe> or <source>: src through map_attr when it has one,
\* then srcset through rewrite_srcset when it has one.
RewriteSrcAndSrcset(passName) ==
    /\ InBody /\ WorkLeft # {}
    /\ NextWork[1] = PassNo(passName)
    /\ \E orc \in Oracles(Urls(body[NextWork[2]])) :
         SrcsetAfter(IF body[NextWork[2]].src.k # "none"
                     THEN map_attr(Cur, orc, body[NextWork[2]].src)
                     ELSE [st |-> Cur, val |-> body[NextWork[2]].src],
                     orc, NextWork[2])
    /\ pc' = passName
    /\ UNCHANGED bodyFrame

BodyImg == RewriteSrcAndSrcset("img")

BodySource == RewriteSrcAndSrcset("source")

PosterAfter(a, k) ==
    AttrsRewritten(k, body[k].src, [st |-> a.st, val |-> body[k].srcset], a.val)

\* One <video>: poster through map_attr when it has one.
BodyVideo ==
    /\ InBody /\ WorkLeft # {}
    /\ NextWork[1] = 3
    /\ \E orc \in Oracles(Urls(body[NextWork[2]])) :
         PosterAfter(IF body[NextWork[2]].poster.k # "none"
                     THEN map_attr(Cur, orc, body[NextWork[2]].poster)
                     ELSE [st |-> Cur, val |-> body[NextWork[2]].poster],
                     NextWork[2])
    /\ pc' = "video"
    /\ UNCHANGED bodyFrame

\* The <script src> re-attached for the k-th extra script.
ExtraScriptTag(src, k) == [HeadEl("script", {}, Relative(src), "") EXCEPT !.id = -2 - k]

\* The rest of process_single_page: <base> removed, the extra scripts
\* appended to "soup.head or soup.new_tag('head')", index.html, styles.css
\* and main.js written.  In mode 'single'
\* main then returns 0.
WriteBundle ==
    /\ InBody /\ WorkLeft = {}
    /\ body' = SelectSeq(body, LAMBDA e : e.tag # "base")
    /\ head' = IF doc.has_head
               THEN head \o [k \in 1..Len(cons.extra_script_srcs) |->
                               ExtraScriptTag(cons.extra_script_srcs[k], k)]
               ELSE head
    /\ html_out' = <<[head |-> head', body |-> body']>>
    /\ files' = (IndexHtml :> <<Text(StartUrl, 0, <<>>)>>)
                @@ (StylesCss :> cons.css_final)
                @@ (MainJs :> cons.js_final)
                @@ files
    /\ pc' = IF opts.mode = "single" THEN "done" ELSE "crawl"
    /\ exit_code' = IF opts.mode = "single" THEN ReturnCode("none") ELSE exit_code
    /\ bi' = 0
    /\ UNCHANGED <<opts, doc, download, asset_map, css_events, fetched, up, dn, cons, crawlVars, first>>

(* --------------------- prefetch_assets_via_crawl ----------------------- *)

\* What the site's robots.txt disallows.
RobotsDisallowed == {P1}

\* The reference-carrying elements of a crawled page; the start page is the
\* start document again.
PageBody(u) ==
    IF u = StartUrl THEN doc.body
    ELSE IF u = P1
    THEN << BodyEl("a", Rooted(<<>>), <<>>, NoHref),
            BodyEl("a", Abs(Url("https", "other.test", <<>>, TRUE, "", "")), <<>>, NoHref),
            BodyEl("img", Rooted(A_PNG.segs), <<>>, NoHref) >>
    ELSE <<>>

\* b.netloc.endswith('.' + a.netloc) on the authorities the model uses.
IsSubdomain(b, a) == b = "sub.site.test" /\ a = "site.test"

\* A same-origin test that does not look at the scheme.
IsSameHost(a, b, follow_subdomains) ==
    IF a.host = b.host THEN TRUE
    ELSE follow_subdomains /\ IsSubdomain(b.host, a.host)

\* is_same_origin(a, b, follow_subdomains)
is_same_origin(a, b, follow_subdomains) ==
    IF a.scheme # b.scheme THEN FALSE
    ELSE IF a.host = b.host THEN TRUE
    ELSE follow_subdomains /\ IsSubdomain(b.host, a.host)

\* urlsplit(url).path.startswith(prefix), segment by segment.
PathStartsWith(u, prefix) ==
    /\ Len(prefix) <= Len(u.segs)
    /\ SubSeq(u.segs, 1, Len(prefix)) = prefix

\* After process_single_page: a new State, with an empty asset_map and the
\* start URL queued.
CrawlInit ==
    /\ pc = "crawl"
    /\ pc' = "loop"
    /\ asset_map' = EmptyMap
    /\ css_events' = <<>>
    /\ to_visit' = <<norm_url(StartUrl)>>
    /\ visited' = {}
    /\ pages' = 0
    /\ dequeued' = <<>>
    /\ UNCHANGED <<opts, doc, download, exit_code, files, fetched, up, dn, head, cons, body,
                   bi, html_out, first>>

\* A loop condition without the page budget.
InLoopNoBudget == pc = "loop" /\ to_visit # <<>>

\* while state.to_visit and pages < opts.max_pages
InLoop == pc = "loop" /\ to_visit # <<>> /\ pages < opts.max_pages

\* The first three gates of an iteration.
PassesGates(url) ==
    /\ url \notin visited
    /\ is_same_origin(norm_url(StartUrl), url, opts.follow_subdomains)
    /\ (opts.restrict_path_prefix = <<>>
        \/ PathStartsWith(url, opts.restrict_path_prefix))

crawlFrame == <<opts, doc, download, exit_code, head, cons, body, bi, html_out, first>>

\* An iteration that ends at one of the first three gates.
CrawlSkip ==
    /\ InLoop
    /\ ~PassesGates(Head(to_visit))
    /\ dequeued' = Append(dequeued, Head(to_visit))
    /\ to_visit' = Tail(to_visit)
    /\ UNCHANGED <<crawlFrame, pc, storeVars, visited, pages>>

\* robots_allows: robots.txt is requested on every call; any failure allows.
RobotsFetch(orc) == Fetch(Cur, orc, ROBOTS)

\* A robots check that refuses every target when robots.txt does not answer.
RobotsAllowsFailClosed(f, target) == f.ok /\ target \notin RobotsDisallowed

robots_allows(f, target) == ~f.ok \/ target \notin RobotsDisallowed

\* The store when the page is requested: after the robots.txt request when
\* robots are respected.
AtPageFetch(orc) == IF opts.respect_robots THEN RobotsFetch(orc).st ELSE Cur

\* An iteration that ends at the robots gate.
CrawlRobotsDisallow ==
    /\ InLoop
    /\ PassesGates(Head(to_visit))
    /\ opts.respect_robots
    /\ \E orc \in Oracles({ROBOTS}) :
         /\ ~robots_allows(RobotsFetch(orc), Head(to_visit))
         /\ SetStore(RobotsFetch(orc).st)
    /\ dequeued' = Append(dequeued, Head(to_visit))
    /\ to_visit' = Tail(to_visit)
    /\ UNCHANGED <<crawlFrame, pc, visited, pages>>

Allowed(orc) ==
    ~opts.respect_robots \/ robots_allows(RobotsFetch(orc), Head(to_visit))

\* An iteration whose page request fails and that puts the URL back at the
\* end of the queue.
CrawlFetchFailsRequeue ==
    /\ InLoop
    /\ PassesGates(Head(to_visit))
    /\ \E orc \in Oracles({ROBOTS, Head(to_visit)}) :
         /\ Allowed(orc)
         /\ ~Fetch(AtPageFetch(orc), orc, Head(to_visit)).ok
         /\ SetStore(Fetch(AtPageFetch(orc), orc, Head(to_visit)).st)
    /\ dequeued' = Append(dequeued, Head(to_visit))
    /\ to_visit' = Append(Tail(to_visit), Head(to_visit))
    /\ UNCHANGED <<crawlFrame, pc, visited, pages>>

\* An iteration whose page request fails.
CrawlFetchFails ==
    /\ InLoop
    /\ PassesGates(Head(to_visit))
    /\ \E orc \in Oracles({ROBOTS, Head(to_visit)}) :
         /\ Allowed(orc)
         /\ ~Fetch(AtPageFetch(orc), orc, Head(to_visit)).ok
         /\ SetStore(Fetch(AtPageFetch(orc), orc, Head(to_visit)).st)
    /\ dequeued' = Append(dequeued, Head(to_visit))
    /\ to_visit' = Tail(to_visit)
    /\ UNCHANGED <<crawlFrame, pc, visited, pages>>

\* The hrefs of the page's <a> elements that resolve, normalized, in order.
RECURSIVE Links(_, _, _)
Links(url, els, i) ==
    IF i > Len(els) THEN <<>>
    ELSE IF els[i].tag = "a" /\ absolutize(url, els[i].src) # NoUrl
    THEN <<norm_url(absolutize(url, els[i].src))>> \o Links(url, els, i + 1)
    ELSE Links(url, els, i + 1)

\* The resolved attribute of every element with one of the tags, in order.
AttrUrls(url, els, tags, attr) ==
    [k \in 1..Len(SelectSeq(els, LAMBDA e : e.tag \in tags)) |->
        absolutize(url, IF attr = "poster"
                        THEN SelectSeq(els, LAMBDA e : e.tag \in tags)[k].poster
                        ELSE SelectSeq(els, LAMBDA e : e.tag \in tags)[k].src)]

\* The resolved URL of every srcset entry of the <img> and <source> elements.
RECURSIVE SrcsetUrls(_, _, _)
SrcsetUrls(url, els, i) ==
    IF i > Len(els) THEN <<>>
    ELSE IF els[i].tag \in {"img", "source"}
    THEN [k \in 1..Len(els[i].srcset) |-> absolutize(url, els[i].srcset[k].url)]
         \o SrcsetUrls(url, els, i + 1)
    ELSE SrcsetUrls(url, els, i + 1)

\* The URLs an iteration hands to map_asset, in order (NoUrl where
\* absolutize gave None).
MediaUrls(url, els) ==
    AttrUrls(url, els, {"img"}, "src") \o AttrUrls(url, els, {"iframe"}, "src")
    \o AttrUrls(url, els, {"source"}, "src") \o AttrUrls(url, els, {"video"}, "poster")
    \o SrcsetUrls(url, els, 1)

\* A prefetch that saves a crawled page over index.html.
PrefetchSavingPage(st, orc, urls, i) == WriteFile(st, IndexHtml, P1, <<>>)

\* The page's media URLs go through map_asset, in order.
RECURSIVE Prefetch(_, _, _, _)
Prefetch(st, orc, urls, i) ==
    IF i > Len(urls) THEN st
    ELSE Prefetch(MapIfUrl(st, orc, urls[i]).st, orc, urls, i + 1)

Range(seq) == {seq[k] : k \in 1..Len(seq)}

\* An iteration whose page request succeeds: the page counts, its links are
\* queued and its media localized.
CrawlPage ==
    /\ InLoop
    /\ PassesGates(Head(to_visit))
    /\ \E orc \in Oracles({ROBOTS, Head(to_visit)}
                          \cup Range(MediaUrls(Head(to_visit), PageBody(Head(to_visit))))) :
         /\ Allowed(orc)
         /\ Fetch(AtPageFetch(orc), orc, Head(to_visit)).ok
         /\ SetStore(Prefetch(Fetch(AtPageFetch(orc), orc, Head(to_visit)).st, orc,
                              MediaUrls(Head(to_visit), PageBody(Head(to_visit))), 1))
    /\ pages' = pages + 1
    /\ dequeued' = Append(dequeued, Head(to_visit))
    /\ to_visit' = Tail(to_visit) \o Links(Head(to_visit), PageBody(Head(to_visit)), 1)
    /\ UNCHANGED <<crawlFrame, pc, visited>>

\* The loop ends; main prints and returns 0.
CrawlDone ==
    /\ pc = "loop"
    /\ ~(to_visit # <<>> /\ pages < opts.max_pages)
    /\ pc' = "done"
    /\ exit_code' = ReturnCode("none")
    /\ UNCHANGED <<opts, doc, download, storeVars, head, cons, body, bi, html_out, crawlVars, first>>

\* main is run again with the same options: process_single_page builds a new
\* State over the out_dir the earlier build left, against the same site.
Rebuild ==
    /\ pc = "done"
    /\ opts.mode = "single"
    /\ first = <<>>
    /\ first' = <<[index |-> html_out[1], css |-> files[StylesCss],
                   js |-> files[MainJs]]>>
    /\ pc' = "start"
    /\ exit_code' = -1
    /\ asset_map' = EmptyMap
    /\ css_events' = <<>>
    /\ fetched' = <<>>
    /\ head' = <<>>
    /\ cons' = ConsInit
    /\ body' = <<>>
    /\ bi' = 0
    /\ html_out' = <<>>
    /\ UNCHANGED <<opts, doc, download, files, up, dn, crawlVars>>

(* --------------------------- specifications ---------------------------- *)

NextSingle ==
    \/ StartFetchOk
    \/ StartFetchFails
    \/ HeadStylesheetLink
    \/ HeadIconLink
    \/ HeadStyle
    \/ HeadExternalScript
    \/ HeadInlineScript
    \/ HeadOther
    \/ HeadCompose
    \/ BodyImg
    \/ BodySource
    \/ BodyVideo
    \/ WriteBundle

Next == NextSingle

\* A build in mode 'single'.
Spec == Init /\ [][Next]_vars

\* Crawl-mode builds are explored on start documents two elements shorter.
MaxCrawlDoc == MaxDoc - 2

\* main in mode 'crawl'.
InitCrawl ==
    /\ opts \in [mode : {"crawl"}, max_pages : 1..MaxPages, respect_robots : BOOLEAN,
                 follow_subdomains : {FALSE},
                 restrict_path_prefix : {<<>>, P1.segs}]
    /\ doc \in Docs(MaxCrawlDoc)
    /\ download = <<>>
    /\ InitRest

NextCrawl ==
    \/ NextSingle
    \/ CrawlInit
    \/ CrawlSkip
    \/ CrawlRobotsDisallow
    \/ CrawlFetchFails
    \/ CrawlPage
    \/ CrawlDone

\* A build in mode 'crawl'.
SpecCrawl == InitCrawl /\ [][NextCrawl]_vars

\* The children of the head of a start document that carries stylesheets only;
\* the second link names a stylesheet whose file name looks like an icon's,
\* and the text of the <style> holds url(/css/bg.png).
CssHeadKinds ==
    { HeadEl("style", {}, Rooted(BG_PNG.segs), ""),
      HeadEl("link", {"stylesheet"}, Rooted(S_CSS.segs), ""),
      HeadEl("link", {"stylesheet"}, Rooted(ICON_CSS.segs), "") }

InitCss ==
    /\ opts = [mode |-> "single", max_pages |-> 0, respect_robots |-> TRUE,
               follow_subdomains |-> FALSE, restrict_path_prefix |-> <<>>]
    /\ doc \in [head : SeqsUpTo(CssHeadKinds, MaxDoc), body : {<<>>}, has_head : {TRUE}]
    /\ download = <<>>
    /\ InitRest

NextCss ==
    \/ StartFetchOk
    \/ StartFetchFails
    \/ HeadStylesheetLink
    \/ HeadStyle
    \/ HeadCompose
    \/ WriteBundle

\* A build in mode 'single' of a start document that carries stylesheets only.
SpecCss == InitCss /\ [][NextCss]_vars

\* The <a> elements of a start page that puts the crawl's gates to work: a
\* same-origin page, a subdomain, the same host under another scheme, and
\* another site.
GateKinds ==
    { BodyEl("a", Rooted(P1.segs), <<>>, NoHref),
      BodyEl("a", Abs(Url("https", "sub.site.test", <<>>, TRUE, "", "")), <<>>, NoHref),
      BodyEl("a", Abs(Url("http", "site.test", P1.segs, FALSE, "", "")), <<>>, NoHref),
      BodyEl("a", Abs(Url("https", "other.test", <<>>, TRUE, "", "")), <<>>, NoHref) }

\* How many pages a crawl of such a start page may fetch.
MaxGatePages == MaxPages + 1

InitGate ==
    /\ opts \in [mode : {"crawl"}, max_pages : {MaxGatePages}, respect_robots : BOOLEAN,
                 follow_subdomains : BOOLEAN,
                 restrict_path_prefix : {<<>>, P1.segs}]
    /\ doc \in [head : {<<>>}, body : SeqsUpTo(GateKinds, MaxDoc - 1), has_head : {TRUE}]
    /\ download = <<>>
    /\ InitRest

NextGate ==
    \/ StartFetchOk
    \/ StartFetchFails
    \/ HeadCompose
    \/ WriteBundle
    \/ CrawlInit
    \/ CrawlSkip
    \/ CrawlRobotsDisallow
    \/ CrawlFetchFails
    \/ CrawlPage
    \/ CrawlDone

\* A crawl from a start page that only links to other pages.
SpecGate == InitGate /\ [][NextGate]_vars

\* The <img> elements of a start page that names /a.png under several
\* spellings (a fragment, capitals in the authority, '.' and '..' segments)
\* and names /a.png?v=2 and /a.png/ beside it.
KeyKinds ==
    { BodyEl("img", Rooted(A_PNG.segs), <<>>, NoHref),
      BodyEl("img",
             Abs(Url("https", "SITE.test", << Dot, <<"a", ".png">> >>, FALSE, "", "top")),
             <<>>, NoHref),
      BodyEl("img",
             Href("rel", TRUE, Url("", "", << <<"img">>, DotDot, <<"a", ".png">> >>,
                                   FALSE, "", "")),
             <<>>, NoHref),
      BodyEl("img", Href("rel", TRUE, Url("", "", A_PNG.segs, FALSE, "v=2", "")),
             <<>>, NoHref),
      BodyEl("img", Href("rel", TRUE, Url("", "", A_PNG.segs, TRUE, "", "")),
             <<>>, NoHref) }

InitKey ==
    /\ opts = [mode |-> "single", max_pages |-> 0, respect_robots |-> TRUE,
               follow_subdomains |-> FALSE, restrict_path_prefix |-> <<>>]
    /\ doc \in [head : {<<>>}, body : SeqsUpTo(KeyKinds, MaxDoc), has_head : BOOLEAN]
    /\ download = <<>>
    /\ InitRest

NextKey ==
    \/ StartFetchOk
    \/ StartFetchFails
    \/ HeadCompose
    \/ BodyImg
    \/ WriteBundle

\* A build in mode 'single' of a start page, with or without a <head>, whose
\* body names one image under several spellings.
SpecKey == InitKey /\ [][NextKey]_vars

\* How many path segments the URLs given to norm_url have at most.
MaxSegs == 2

\* opts.url is any URL of at most MaxSegs segments: with or without a path,
\* '.' and '..' segments, a trailing slash, a query, a fragment, capitals in
\* the authority.
InitNorm ==
    /\ opts \in [mode : {"crawl"}, max_pages : {1}, respect_robots : {TRUE},
                 follow_subdomains : {FALSE}, restrict_path_prefix : {<<>>},
                 url : [scheme : {"https"}, host : {"site.test", "SITE.test"},
                        segs : UNION { [1..k -> {Dot, DotDot, <<"a">>, <<"b", ".png">>}] :
                                       k \in 0..MaxSegs },
                        trail : BOOLEAN, query : {"", "q=1"}, frag : {"", "top"}]]
    /\ doc = [head |-> <<>>, body |-> <<>>, has_head |-> TRUE]
    /\ download = <<>>
    /\ InitRest

\* norm_url applied to opts.url where the queue is made, "deque(
\* [norm_url(opts.url)])", and applied again to its own result, as map_asset
\* does with the URL it is given: to_visit holds the successive results.
Normalize ==
    /\ pc = "start" /\ opts.mode = "crawl" /\ "url" \in DOMAIN opts
    /\ Len(to_visit) < 2
    /\ to_visit' = IF to_visit = <<>> THEN <<norm_url(opts.url)>>
                   ELSE Append(to_visit, norm_url(to_visit[Len(to_visit)]))
    /\ UNCHANGED <<opts, doc, download, pc, exit_code, storeVars, head, cons, body, bi,
                   html_out, visited, pages, dequeued, first>>

\* norm_url on its own, on every URL within the bounds.
SpecNorm == InitNorm /\ [][Normalize]_vars

(* ------------------- src/shitSend/app.py: /download -------------------- *)

\* The text after "bytes=" of a Range header is a sequence of tokens: a run
\* of digits is the number it reads as, '-' is Dash and ',' is Comma.
Dash == -1
Comma == -2

\* parse_range on a header that is absent or does not start with "bytes="
\* (has_bytes = FALSE) or on the text `ranges` that follows "bytes=".  The
\* result is the triple returned, or the status of the exception raised: 416
\* for the HTTPException, 500 for the ValueError of int() on text that is not
\* an optionally signed run of digits.
parse_range(has_bytes, ranges, total) ==
    LET Answer(start, end, status_code) ==
            [start |-> start, end |-> end, status_code |-> status_code]
        Int_ok(s) ==
            \/ Len(s) = 1 /\ s[1] >= 0
            \/ Len(s) = 2 /\ s[1] = Dash /\ s[2] >= 0
        int(s) == IF Len(s) = 1 THEN s[1] ELSE -s[2]
        min(a, b) == IF a <= b THEN a ELSE b
        max(a, b) == IF a >= b THEN a ELSE b
        dashes == {i \in 1..Len(ranges) : ranges[i] = Dash}
        at == IF dashes = {} THEN Len(ranges) + 1
              ELSE CHOOSE i \in dashes : \A j \in dashes : i <= j
        start_str == SubSeq(ranges, 1, at - 1)
        end_str == SubSeq(ranges, at + 1, Len(ranges))
    IN IF ~has_bytes THEN Answer(0, total - 1, 200)
       ELSE IF \E i \in 1..Len(ranges) : ranges[i] = Comma
       THEN Answer(0, total - 1, 200)
       ELSE IF start_str = <<>>
       THEN IF ~Int_ok(end_str) THEN Answer(0, 0, 500)
            ELSE IF int(end_str) = 0 THEN Answer(0, 0, 416)
            ELSE Answer(max(total - int(end_str), 0), total - 1, 206)
       ELSE IF ~Int_ok(start_str) \/ (end_str # <<>> /\ ~Int_ok(end_str))
       THEN Answer(0, 0, 500)
       ELSE IF \/ int(start_str) > (IF end_str = <<>> THEN total - 1 ELSE int(end_str))
               \/ int(start_str) >= total
       THEN Answer(0, 0, 416)
       ELSE Answer(int(start_str),
                   min(IF end_str = <<>> THEN total - 1 ELSE int(end_str), total - 1),
                   206)

\* The requests: no Range header, "bytes=<a>-<b>", "bytes=-<n>", "bytes=<a>-"
\* and a multi-range header, on a file of 1..MaxTotal bytes.  Str is str() of
\* an integer: a negative one reads '-' followed by the digits of its
\* absolute value.
InitRange ==
    /\ opts = [mode |-> "single", max_pages |-> 0, respect_robots |-> TRUE,
               follow_subdomains |-> FALSE, restrict_path_prefix |-> <<>>]
    /\ doc = [head |-> <<>>, body |-> <<>>, has_head |-> TRUE]
    /\ download \in
         LET Str(n) == IF n < 0 THEN <<Dash, -n>> ELSE <<n>> IN
         [has_bytes : BOOLEAN,
          ranges : {Str(a) \o <<Dash>> \o Str(b) : a, b \in (-MaxField)..MaxField}
                   \cup {<<Dash>> \o Str(n) : n \in (-MaxField)..MaxField}
                   \cup {Str(a) \o <<Dash>> : a \in 0..MaxField}
                   \cup {<<0, Dash, 0, Comma, 1, Dash, 1>>},
          total : 1..MaxTotal,
          answered : {FALSE},
          answer : {[start |-> 0, end |-> 0, status_code |-> 0]},
          content_length : {0}]
    /\ InitRest

\* download: parse_range on the Range header and the size of the file; for
\* status 206 Content-Length is end - start + 1, otherwise the size.
Download ==
    /\ download # <<>> /\ ~download.answered
    /\ download' =
         [download EXCEPT
            !.answered = TRUE,
            !.answer = parse_range(download.has_bytes, download.ranges, download.total),
            !.content_length =
                IF parse_range(download.has_bytes, download.ranges,
                               download.total).status_code = 206
                THEN parse_range(download.has_bytes, download.ranges, download.total).end
                     - parse_range(download.has_bytes, download.ranges,
                                   download.total).start + 1
                ELSE download.total]
    /\ UNCHANGED <<opts, doc, pc, exit_code, storeVars, head, cons, body, bi,
                   html_out, crawlVars, first>>

\* The /download handler on its own, on every request within the bounds.
SpecRange == InitRange /\ [][Download]_vars

\* Repeated builds are explored on start documents one element shorter.
MaxRebuildDoc == MaxDoc - 1

InitRebuild ==
    /\ opts = [mode |-> "single", max_pages |-> 0, respect_robots |-> TRUE,
               follow_subdomains |-> FALSE, restrict_path_prefix |-> <<>>]
    /\ doc \in Docs(MaxRebuildDoc)
    /\ download = <<>>
    /\ InitRest

NextRebuild ==
    \/ NextSingle
    \/ Rebuild

\* A build in mode 'single' followed by a second build into the same out_dir.
SpecRebuild == InitRebuild /\ [][NextRebuild]_vars

(* ------------------------------ properties ----------------------------- *)

\* The three files process_single_page writes itself.
BundleFiles == {IndexHtml, StylesCss, MainJs}

\* The files that localizing canonical URL u has left in the bundle.
AssetFilesFrom(u) ==
    {p \in DOMAIN files \ BundleFiles : files[p] # <<>> /\ files[p][1].src = u}

\* How many times the transport was asked for canonical URL u.
FetchCount(u) == Cardinality({i \in 1..Len(fetched) : norm_url(fetched[i]) = u})

\* C1: idempotence of map_asset.  Once a canonical URL has been localized in
\* a build, later map_asset calls for it give the same path, write no
\* further file and fetch nothing, so that the build holds one file of that
\* URL and has asked the transport for it exactly once.
C1_LocalizedOnce ==
    \A u \in SiteAssets :
        AssetFilesFrom(u) # {} =>
            /\ Cardinality(AssetFilesFrom(u)) = 1
            /\ u \in DOMAIN asset_map /\ asset_map[u] \in AssetFilesFrom(u)
            /\ FetchCount(u) = 1

\* C2: no retry.  Within one build the transport is asked at most once for
\* any canonical URL, whether the request failed or not and however often
\* and from wherever the URL is referenced.
C2_AtMostOneFetch ==
    \A i, j \in 1..Len(fetched) :
        norm_url(fetched[i]) = norm_url(fetched[j]) => i = j

\* consolidate_head_assets has returned.
HeadDone == pc \in {"img", "source", "video", "crawl", "loop", "done"}

\* The canonical URL a head element's href or src resolves to.
HeadUrl(el) == norm_url(absolutize(StartUrl, el.href))

\* The position of the first element of the start document's head that
\* satisfies isExt, one past the end when there is none.
FirstPos(isExt(_)) ==
    IF \E k \in 1..Len(doc.head) : isExt(doc.head[k])
    THEN CHOOSE k \in 1..Len(doc.head) :
            isExt(doc.head[k]) /\ \A j \in 1..(k - 1) : ~isExt(doc.head[j])
    ELSE Len(doc.head) + 1

\* The inline fragments of the elements of `els`, in order.
InlineTexts(els) == [k \in 1..Len(els) |-> Text(NoUrl, els[k].id, <<>>)]

RECURSIVE Flatten(_)
Flatten(seqs) == IF seqs = <<>> THEN <<>> ELSE Head(seqs) \o Flatten(Tail(seqs))

IsExternalCss(el) == IsStylesheetLink(el)

\* The head holds only <style> elements and stylesheet links, and every
\* link was localized.
CssOnlyHead ==
    /\ \A k \in 1..Len(doc.head) :
          doc.head[k].tag = "style" \/ IsExternalCss(doc.head[k])
    /\ \A k \in 1..Len(doc.head) :
          IsExternalCss(doc.head[k]) =>
              /\ HeadUrl(doc.head[k]) \in DOMAIN asset_map
              /\ asset_map[HeadUrl(doc.head[k])] \in DOMAIN files

\* pre ++ external ++ post as the document gives them: the <style> texts
\* before the first link, the text of every link's localized file in
\* document order, the <style> texts after the first link.
ExpectedCss ==
    InlineTexts(SelectSeq(doc.head, LAMBDA e : e.tag = "style"
                                               /\ e.id < FirstPos(IsExternalCss)))
    \o Flatten([k \in 1..Len(SelectSeq(doc.head, IsExternalCss)) |->
                   files[asset_map[HeadUrl(SelectSeq(doc.head, IsExternalCss)[k])]]])
    \o InlineTexts(SelectSeq(doc.head, LAMBDA e : e.tag = "style"
                                                 /\ e.id > FirstPos(IsExternalCss)))

\* C3: CSS ordering.  For a head of inline <style> elements and localized
\* stylesheet links, the consolidated CSS is the inline fragments before the
\* first link, then every link's text in document order, then the inline
\* fragments after the first link; styles.css holds that text.
C3_CssOrdering ==
    (HeadDone /\ CssOnlyHead) =>
        /\ cons.css_final = ExpectedCss
        /\ (pc = "done" => files[StylesCss] = ExpectedCss)

\* Inline A, external B, inline C has been consolidated and written.
C3_Witness ==
    /\ pc = "done" /\ CssOnlyHead
    /\ Len(doc.head) = 3
    /\ doc.head[1].tag = "style" /\ IsExternalCss(doc.head[2]) /\ doc.head[3].tag = "style"
    /\ Len(files[StylesCss]) = 3
    /\ files[StylesCss][1].id = 1 /\ files[StylesCss][2].src = S_CSS
    /\ files[StylesCss][3].id = 3

IsExternalJs(el) == el.tag = "script" /\ el.href.k # "none"

\* The head holds only inline scripts and external scripts whose fetch
\* succeeded with a JavaScript content type.
JsOnlyHead ==
    \A k \in 1..Len(doc.head) :
        /\ doc.head[k].tag = "script"
        /\ IsExternalJs(doc.head[k]) =>
              /\ HeadUrl(doc.head[k]) \in up
              /\ Site(HeadUrl(doc.head[k])).ctype = "application/javascript"

\* pre ++ external ++ post with pre and post holding inline fragments only.
ExpectedJs ==
    InlineTexts(SelectSeq(doc.head, LAMBDA e : ~IsExternalJs(e)
                                               /\ e.id < FirstPos(IsExternalJs)))
    \o [k \in 1..Len(SelectSeq(doc.head, IsExternalJs)) |->
           Text(HeadUrl(SelectSeq(doc.head, IsExternalJs)[k]), 0, <<>>)]
    \o InlineTexts(SelectSeq(doc.head, LAMBDA e : ~IsExternalJs(e)
                                                 /\ e.id > FirstPos(IsExternalJs)))

\* C4: JS ordering.  For a head of inline scripts and fetched text external
\* scripts, the consolidated JS is the inline fragments before the first
\* external script, then every external script's text in document order,
\* then the inline fragments after it: each script's text once.
C4_JsOrdering ==
    (HeadDone /\ JsOnlyHead) => cons.js_final = ExpectedJs

\* C5: collision safety.  Distinct canonical URLs that are localized have
\* distinct paths, and the file at a URL's path is the one written for that
\* URL: no later map_asset call for another URL has written over it.
C5_CollisionSafety ==
    /\ \A u, v \in DOMAIN asset_map : u # v => asset_map[u] # asset_map[v]
    /\ \A u \in DOMAIN asset_map :
          /\ asset_map[u] \in DOMAIN files \ BundleFiles
          /\ files[asset_map[u]] # <<>>
          /\ files[asset_map[u]][1].src = u

\* Two URLs that are both named logo.png are localized: one file has the
\* plain name, the other the name with the first free counter.
C5_Witness ==
    /\ {LOGO_IMG, LOGO_CDN} \subseteq DOMAIN asset_map
    /\ {asset_map[LOGO_IMG], asset_map[LOGO_CDN]}
         = {Append(FolderImages, <<"logo", ".png">>),
            Append(FolderImages, <<"logo", "_1", ".png">>)}

\* Reference h, resolved against base, names a URL whose fetch failed.
Failed(h, base) ==
    /\ absolutize(base, h) # NoUrl
    /\ norm_url(absolutize(base, h)) \in dn

OutHead == html_out[1].head
OutBody == html_out[1].body

\* The body element of the written tree that has the id of e.
OutOf(e) == CHOOSE o \in Range(OutBody) : o.id = e.id

BodyRefsKept(e) ==
    /\ \E o \in Range(OutBody) : o.id = e.id
    /\ Failed(e.src, StartUrl) => OutOf(e).src = e.src
    /\ Failed(e.poster, StartUrl) => OutOf(e).poster = e.poster
    /\ \A i \in 1..Len(e.srcset) :
          Failed(e.srcset[i].url, StartUrl) => OutOf(e).srcset[i] = e.srcset[i]

\* An @import or url() whose fetch failed reads in the localized file as it
\* read in the fetched stylesheet.
CssRefsKept(p) ==
    \A i \in 1..Len(files[p][1].items) :
        Failed(Site(files[p][1].src).items[i].href, files[p][1].src) =>
            files[p][1].items[i] = Site(files[p][1].src).items[i]

\* C6: failure scenario.  A completed build has written index.html,
\* styles.css and main.js, and every reference whose fetch failed (a head
\* stylesheet link, icon link or script src, a body src, poster or srcset
\* entry, a CSS url() or @import) is in the output as it was in the input.
C6_FailedReferenceKept ==
    pc = "done" =>
        /\ BundleFiles \subseteq DOMAIN files
        /\ \A k \in 1..Len(doc.head) :
              Failed(doc.head[k].href, StartUrl) => doc.head[k] \in Range(OutHead)
        /\ \A k \in 1..Len(doc.body) :
              doc.body[k].tag # "base" => BodyRefsKept(doc.body[k])
        /\ \A p \in DOMAIN files \ BundleFiles : CssRefsKept(p)

\* C7: only the start-page fetch is fatal.  When it fails, main returns
\* non-zero with nothing else requested and no file written; when it
\* succeeds, no failed fetch makes main stop early or return non-zero: main
\* has returned exactly when the build is at its end, with exit status 0
\* and the three files written.
C7_StartFetchOnlyFatal ==
    /\ StartUrl \in dn =>
          /\ pc = "aborted" /\ exit_code \notin {-1, 0}
          /\ fetched = <<StartUrl>>
          /\ DOMAIN files = {}
    /\ StartUrl \in up =>
          /\ pc # "aborted" /\ exit_code \in {-1, 0}
          /\ (pc = "done" <=> exit_code = 0)
          /\ (pc = "done" => BundleFiles \subseteq DOMAIN files)
    /\ pc # "start" => StartUrl \in up \cup dn

\* A crawl has ended with exit status 0 although robots.txt and an asset or
\* a linked page failed.
C7_Witness ==
    /\ pc = "done" /\ exit_code = 0 /\ opts.mode = "crawl"
    /\ ROBOTS \in dn
    /\ dn \cap (SiteAssets \cup {P1}) # {}

\* The suffix of a bundle path's file name.
Ext(p) == SplitExt(p[Len(p)]).suffix

\* C8: one file of each kind.  After a completed build index.html is the
\* only HTML file of the bundle, assets/css/styles.css the only CSS file and
\* assets/js/main.js the only JS file.
C8_OneFileOfEachKind ==
    pc = "done" =>
        /\ BundleFiles \subseteq DOMAIN files
        /\ \A p \in DOMAIN files :
              /\ Ext(p) = <<".html">> => p = IndexHtml
              /\ Ext(p) = <<".css">> => p = StylesCss
              /\ Ext(p) = <<".js">> => p = MainJs

\* The elements consolidate_head_assets is to take out of the head.
IsCssOrJs(el) ==
    \/ el.tag \in {"style", "script"}
    \/ el.tag = "link" /\ "stylesheet" \in el.rels

NoNonTextScript ==
    \A k \in 1..Len(doc.head) :
        IsExternalJs(doc.head[k]) =>
            Site(HeadUrl(doc.head[k])).ctype = "application/javascript"

\* C9: after head consolidation no stylesheet link, <style> or <script> of
\* the document is left in the head, which has exactly one stylesheet link,
\* the one to styles.css, and, absent non-text scripts, exactly one script,
\* the one for main.js.
C9_HeadConsolidated ==
    (HeadDone /\ pc # "done") =>
        /\ \A k \in 1..Len(doc.head) :
              IsCssOrJs(doc.head[k]) =>
                  \A j \in 1..Len(head) : head[j].id # doc.head[k].id
        /\ {j \in 1..Len(head) : head[j].tag = "link" /\ "stylesheet" \in head[j].rels}
             = {j \in 1..Len(head) : head[j] = LinkTag}
        /\ Cardinality({j \in 1..Len(head) : head[j] = LinkTag}) = 1
        /\ NoNonTextScript =>
              /\ {j \in 1..Len(head) : head[j].tag = "script"}
                   = {j \in 1..Len(head) : head[j] = ScriptTag}
              /\ Cardinality({j \in 1..Len(head) : head[j] = ScriptTag}) = 1

\* C10: a head external script served as application/wasm is not in
\* main.js; it is localized and index.html has a <script src> for its
\* local path after the main.js script, whatever its type attribute.
C10_NonTextScriptKeptApart ==
    pc = "done" =>
        \A k \in 1..Len(doc.head) :
            (/\ IsExternalJs(doc.head[k])
             /\ HeadUrl(doc.head[k]) \in up
             /\ Site(HeadUrl(doc.head[k])).ctype = "application/wasm") =>
                /\ \A i \in 1..Len(files[MainJs]) :
                      files[MainJs][i].src # HeadUrl(doc.head[k])
                /\ HeadUrl(doc.head[k]) \in DOMAIN asset_map
                /\ \E i, j \in 1..Len(OutHead) :
                      /\ OutHead[i] = ScriptTag /\ i < j
                      /\ OutHead[j].tag = "script"
                      /\ OutHead[j].href = Relative(asset_map[HeadUrl(doc.head[k])])

\* Path p lies in folder dir.
Under(p, dir) == Len(p) > Len(dir) /\ SubSeq(p, 1, Len(dir)) = dir

\* C11: every non-text script payload kept as a separate reference is stored
\* under assets/js/other/, and the src re-attached for it points there.
C11_NonTextScriptUnderJsOther ==
    /\ \A k \in 1..Len(cons.extra_script_srcs) :
          /\ Under(cons.extra_script_srcs[k], FolderJsOther)
          /\ cons.extra_script_srcs[k] \in DOMAIN files
    /\ pc = "done" =>
          \A j \in 1..Len(OutHead) :
              (OutHead[j].tag = "script" /\ OutHead[j] # ScriptTag) =>
                  \E p \in DOMAIN files :
                      OutHead[j].href = Relative(p) /\ Under(p, FolderJsOther)

\* C12: a second build of the same documents and asset bytes, run into the
\* output directory the first build left, produces the same index.html,
\* styles.css and main.js as the first build.
C12_RebuildDeterministic ==
    (first # <<>> /\ pc = "done") =>
        /\ html_out[1] = first[1].index
        /\ files[StylesCss] = first[1].css
        /\ files[MainJs] = first[1].js

\* The canonical URLs the start document refers to for assets, with what
\* their stylesheets reach.
StartPageAssets ==
    Reach({norm_url(u) :
             u \in (UNION {Urls(doc.body[k]) : k \in 1..Len(doc.body)}
                    \cup {absolutize(StartUrl, doc.head[k].href) :
                            k \in 1..Len(doc.head)}) \ {NoUrl}}, {})

\* The start page has been the only page of a crawl with max_pages = 1, and
\* it has outbound links.
BudgetOfOneSpent ==
    /\ opts.mode = "crawl"
    /\ opts.max_pages = 1
    /\ pc = "done"
    /\ pages = 1
    /\ Links(StartUrl, doc.body, 1) # <<>>

\* The canonical URLs that only pages still in the queue lead to: the queued
\* pages and the media they refer to, less what the start page leads to.
QueuedOnly ==
    (Range(to_visit)
     \cup UNION {{norm_url(u) : u \in Range(MediaUrls(q, PageBody(q))) \ {NoUrl}} :
                 q \in Range(to_visit)})
    \ ({norm_url(StartUrl), ROBOTS} \cup StartPageAssets)

\* With max_pages = 1 and a start page that has outbound links: the start
\* page is the only page taken from the queue, the queue is left non-empty,
\* nothing that only the queued pages lead to has been requested, and
\* index.html is the only page written.
BudgetOfOneLeavesQueue ==
    BudgetOfOneSpent =>
        /\ to_visit # <<>>
        /\ dequeued = <<norm_url(StartUrl)>>
        /\ \A i \in 1..Len(fetched) : norm_url(fetched[i]) \notin QueuedOnly
        /\ {p \in DOMAIN files : p[Len(p)] = IndexHtml[1]} = {IndexHtml}

\* C13: with max_pages = N the crawl loop counts at most N fetched pages and,
\* once the budget is reached, asks the transport for nothing more and takes
\* nothing more from the queue; with N = 1 and a start page that has outbound
\* links, only what the start page leads to is fetched, the queue is left
\* non-empty and untraversed, and no second index.html is written.
C13_PageBudget ==
    /\ [](pages <= opts.max_pages /\ BudgetOfOneLeavesQueue)
    /\ [][ (pc = "loop" /\ pages >= opts.max_pages) =>
              (fetched' = fetched /\ dequeued' = dequeued /\ to_visit' = to_visit)
          ]_vars

C13_Witness == BudgetOfOneSpent /\ to_visit # <<>> /\ P1 \notin up \cup dn

\* C14: the crawl queue never holds a URL twice, never holds a URL that has
\* already been taken from it (visited or skipped), and no URL is taken from
\* it more than once in a crawl.
C14_NoRequeue ==
    /\ \A j, k \in 1..Len(to_visit) : to_visit[j] = to_visit[k] => j = k
    /\ \A k \in 1..Len(to_visit) : to_visit[k] \notin Range(dequeued)
    /\ \A j, k \in 1..Len(dequeued) : dequeued[j] = dequeued[k] => j = k

\* C15: in crawl mode the single-page step has written index.html,
\* styles.css and main.js before the loop takes its first URL, and no step
\* from there to the end of the build creates or changes any of the three.
C15_BundleFilesFrozen ==
    [][ /\ dequeued' # <<>> =>
              (html_out # <<>> /\ BundleFiles \subseteq DOMAIN files)
        /\ pc \in {"crawl", "loop"} =>
              /\ html_out' = html_out
              /\ \A p \in BundleFiles :
                    p \in DOMAIN files /\ p \in DOMAIN files' /\ files'[p] = files[p]
      ]_vars

\* A crawl has ended after a loop step that wrote a file.
C15_Witness ==
    /\ opts.mode = "crawl"
    /\ pc = "done"
    /\ pages >= 1
    /\ DOMAIN asset_map # {}

\* What reference h denotes when it is read in the file at path p: the
\* bundle path it resolves to from the directory of p.
ResolveIn(p, h) == RemoveDots(SubSeq(p, 1, Len(p) - 1) \o h.u.segs, <<>>)

\* The url()/@import occurrences the rewriter has replaced, as
\* <<file, fragment, occurrence>>: the ones that differ from the text served.
ReplacedRefs ==
    {t \in UNION {{<<p, f, i>> : f \in 1..Len(files[p]), i \in 1..2} : p \in DOMAIN files} :
        /\ files[t[1]][t[2]].src # NoUrl
        /\ t[3] <= Len(files[t[1]][t[2]].items)
        /\ files[t[1]][t[2]].items[t[3]] # Site(files[t[1]][t[2]].src).items[t[3]]}

\* The canonical URL that replaced occurrence t referred to when served.
ReferredUrl(t) ==
    norm_url(absolutize(files[t[1]][t[2]].src,
                        Site(files[t[1]][t[2]].src).items[t[3]].href))

\* C16: every url()/@import reference the rewriter replaced, resolved from
\* the directory of the file that holds it (styles.css or the localized
\* stylesheet, in whichever folder it was put), is the bundle path where the
\* bytes of the referenced asset were written.
C16_CssRoundTrip ==
    \A t \in ReplacedRefs :
        ResolveIn(t[1], files[t[1]][t[2]].items[t[3]].href) \in AssetFilesFrom(ReferredUrl(t))

\* C17: a stylesheet linked more than once in the head (the same canonical
\* URL) has its text in the consolidated styles.css once.
C17_DuplicateLinkIncludedOnce ==
    pc = "done" =>
        \A j, k \in 1..Len(files[StylesCss]) :
            (files[StylesCss][j].src # NoUrl
             /\ files[StylesCss][j].src = files[StylesCss][k].src) => j = k

\* map_asset called now for a URL that is not in the asset map and does not
\* answer: it returns None and leaves the asset map and the files as they are.
FailedMapAssetLeavesStore ==
    \A u \in (SiteAssets \ up) \ DOMAIN asset_map :
        /\ map_asset(Cur, {}, u).rel = NoPath
        /\ map_asset(Cur, {}, u).st.asset_map = asset_map
        /\ map_asset(Cur, {}, u).st.files = files

\* C18: when the fetch inside map_asset fails, map_asset returns None, makes
\* no asset_map entry and writes no file.  A URL whose fetch has failed has
\* no entry and no file, and a failing call made in the state reached leaves
\* the asset map and the files exactly as they are.
C18_FailedFetchLeavesStore ==
    /\ \A u \in dn :
          /\ u \notin DOMAIN asset_map
          /\ \A p \in DOMAIN files \ BundleFiles :
                files[p] # <<>> => files[p][1].src # u
    /\ FailedMapAssetLeavesStore

\* A build has ended in which the fetch of one asset failed after another
\* asset was localized.
C18_Witness ==
    /\ pc = "done"
    /\ dn \cap SiteAssets # {}
    /\ DOMAIN asset_map # {}

\* C19: asset records are write-once.  The asset map is keyed by canonical
\* URLs, so it holds at most one entry for each, and no step of a build
\* removes an entry or changes the path of one.
C19_WriteOnce ==
    [][ /\ \A u \in DOMAIN asset_map' : norm_url(u) = u
        /\ \A u \in DOMAIN asset_map :
              u \in DOMAIN asset_map' /\ asset_map'[u] = asset_map[u]
      ]_vars

\* C20: the crawl loop works on the Asset Store the start page was
\* consolidated with.  No step of the loop asks the transport again for an
\* asset URL that already has its file in the bundle, and none writes a
\* second file for it.
C20_SharedStore ==
    [][ pc = "loop" =>
          \A u \in SiteAssets :
              AssetFilesFrom(u) # {} =>
                  /\ Cardinality({i \in 1..Len(fetched') : norm_url(fetched'[i]) = u})
                        = FetchCount(u)
                  /\ {p \in DOMAIN files' \ BundleFiles :
                        files'[p] # <<>> /\ files'[p][1].src = u} = AssetFilesFrom(u)
      ]_vars

\* C21: whenever map_asset returns the path of a stylesheet, to a nested
\* caller of the same @import cycle as to any other, the file at that path
\* already holds its rewritten text: no path is returned early.
C21_ReturnedStylesheetRewritten ==
    \A k \in 1..Len(css_events) : css_events[k].ev # "early"

\* The stylesheets the site serves.
Stylesheets == {u \in SiteAssets : Site(u).ctype = "text/css"}

\* How many times the rewritten text of stylesheet c has been written.
RewriteCount(c) ==
    Cardinality({k \in 1..Len(css_events) : css_events[k] = CssEvent("rewritten", c)})

\* C22: localizing a stylesheet whose @import graph has a cycle terminates,
\* and every stylesheet that is localized, the ones of a cycle included, has
\* been fetched exactly once and has had its rewritten text written exactly
\* once; a stylesheet that is not localized has not been rewritten.
C22_CycleLocalizedOnce ==
    \A c \in Stylesheets :
        IF c \in DOMAIN asset_map
        THEN FetchCount(c) = 1 /\ RewriteCount(c) = 1
        ELSE RewriteCount(c) = 0

\* The two stylesheets that import each other and the one that imports
\* itself are localized, and each recursion was cut by a cache hit on the
\* stylesheet being rewritten.
C22_Witness ==
    /\ {S_CSS, T_CSS, ICON_CSS} \subseteq DOMAIN asset_map
    /\ \E k \in 1..Len(css_events) : css_events[k] = CssEvent("early", S_CSS)
    /\ \E k \in 1..Len(css_events) : css_events[k] = CssEvent("early", ICON_CSS)
    /\ pc = "done"

\* One more than the largest number of links a page of the site queues.
LinkBound ==
    1 + IF Len(Links(StartUrl, doc.body, 1)) > Len(Links(P1, PageBody(P1), 1))
        THEN Len(Links(StartUrl, doc.body, 1))
        ELSE Len(Links(P1, PageBody(P1), 1))

\* What every iteration of the crawl loop lowers: the pages left in the
\* budget, each weighed with the links it can queue, and the queue's length.
CrawlVariant == (opts.max_pages - pages) * LinkBound + Len(to_visit)

\* An iteration can always be taken while the loop condition holds: the URL
\* at the head of the queue fails a gate, or is disallowed, or its request
\* fails or succeeds.
LoopCanStep ==
    InLoop =>
        \/ ~PassesGates(Head(to_visit))
        \/ \E orc \in Oracles({ROBOTS, Head(to_visit)}) :
              \/ opts.respect_robots /\ ~robots_allows(RobotsFetch(orc), Head(to_visit))
              \/ Allowed(orc) /\ Fetch(AtPageFetch(orc), orc, Head(to_visit)).ok \in BOOLEAN

\* C23: the crawl loop terminates, whatever the link graph (cycles and
\* failing pages included) and max_pages.  A non-negative quantity falls with
\* every iteration, an iteration can be taken as long as the loop condition
\* holds, and the loop is left only with the queue empty or the budget
\* reached.
C23_CrawlTerminates ==
    /\ [](pc = "loop" => (CrawlVariant >= 0 /\ LoopCanStep))
    /\ [][(pc = "loop" /\ pc' = "loop") =>
              (opts.max_pages - pages') * LinkBound + Len(to_visit') < CrawlVariant]_vars
    /\ []((pc = "done" /\ opts.mode = "crawl") =>
              (to_visit = <<>> \/ pages >= opts.max_pages))

\* A crawl over pages that link to each other has ended on its budget, the
\* start page queued again.
C23_Witness ==
    /\ pc = "done"
    /\ opts.mode = "crawl"
    /\ pages = opts.max_pages
    /\ P1 \in Range(dequeued)
    /\ norm_url(StartUrl) \in Range(to_visit)

\* The URL the iteration of this step has taken from the queue.
Taken == Head(to_visit)

\* The step requests the page it has taken from the queue.
PageRequested ==
    \E i \in (Len(fetched) + 1)..Len(fetched') : fetched'[i] = Taken

\* Same scheme as the start URL and the same host, or a subdomain of the
\* start host when subdomains are followed.
SameOriginAsStart(u) ==
    /\ u.scheme = StartUrl.scheme
    /\ \/ u.host = StartUrl.host
       \/ opts.follow_subdomains /\ IsSubdomain(u.host, StartUrl.host)

\* The path of u starts with the configured prefix, when one is set.
UnderPrefix(u) ==
    \/ opts.restrict_path_prefix = <<>>
    \/ /\ Len(u.segs) >= Len(opts.restrict_path_prefix)
       /\ \A k \in 1..Len(opts.restrict_path_prefix) :
             u.segs[k] = opts.restrict_path_prefix[k]

\* C24: an iteration of the crawl loop requests the page it took from the
\* queue only if the URL is same-origin with the start URL, lies under the
\* path prefix when one is set, and is not disallowed by a robots.txt that
\* answered when robots are respected; an iteration whose URL fails a gate
\* requests no page and leaves the page count as it is.
C24_CrawlGating ==
    [][ (pc = "loop" /\ dequeued' # dequeued) =>
          /\ PageRequested =>
                /\ SameOriginAsStart(Taken)
                /\ UnderPrefix(Taken)
                /\ opts.respect_robots =>
                      (Taken \notin RobotsDisallowed \/ ROBOTS \in dn')
          /\ ~(SameOriginAsStart(Taken) /\ UnderPrefix(Taken)) =>
                (fetched' = fetched /\ pages' = pages)
          /\ (opts.respect_robots /\ Taken \in RobotsDisallowed /\ ROBOTS \in up') =>
                (~PageRequested /\ pages' = pages)
      ]_vars

\* A crawl that follows subdomains has requested a page of a subdomain and
\* has passed over a URL of another scheme or site.
C24_Witness ==
    /\ pc = "done"
    /\ opts.follow_subdomains
    /\ \E i \in 1..Len(fetched) : fetched[i].host = "sub.site.test"
    /\ \E k \in 1..Len(dequeued) :
          dequeued[k].host = "other.test" \/ dequeued[k].scheme = "http"

\* The folder a path lies in.
FolderOf(p) == SubSeq(p, 1, Len(p) - 1)

\* The folder the classification rule gives an asset of canonical URL u
\* served with content type ctype.
FolderByRule(u, ctype) ==
    IF \E i \in 1..Len(Basename(u)) :
          Basename(u)[i] \in {"favicon", "apple-touch-icon", "mstile"}
    THEN FolderFavicon
    ELSE IF ctype \in {"image/png", "image/x-icon"}
    THEN FolderImages
    ELSE FolderMedia

\* C25: every localized asset lies in exactly the folder the rule gives it:
\* favicon for an icon-like basename whatever the content type, else images
\* for an image/ content type, else the generic media folder.
C25_DestinationByRule ==
    \A u \in DOMAIN asset_map :
        /\ FolderOf(asset_map[u]) = FolderByRule(u, Site(u).ctype)
        /\ FolderOf(asset_map[u]) \in {FolderFavicon, FolderImages, FolderMedia}

\* One asset in each of the three folders, the one in the favicon folder
\* being a stylesheet.
C25_Witness ==
    /\ {ICON_CSS, BG_PNG, S_CSS} \subseteq DOMAIN asset_map
    /\ FolderOf(asset_map[ICON_CSS]) = FolderFavicon
    /\ FolderOf(asset_map[BG_PNG]) = FolderImages
    /\ FolderOf(asset_map[S_CSS]) = FolderMedia

\* Reference h of the start page resolves to a URL that answered.
Answered(h) ==
    /\ absolutize(StartUrl, h) # NoUrl
    /\ norm_url(absolutize(StartUrl, h)) \in up

\* Reference h reads in the output as the bundle path its asset was
\* localized to.
Relinked(h, out) ==
    /\ norm_url(absolutize(StartUrl, h)) \in DOMAIN asset_map
    /\ out = Relative(asset_map[norm_url(absolutize(StartUrl, h))])

\* C26: in the index.html of a completed build every src and poster of an
\* <img>, <iframe>, <source> or <video> whose URL resolves and answered,
\* the src of a <video> included, is the localized bundle-relative path.
C26_BodyRelinked ==
    pc = "done" =>
        \A k \in 1..Len(doc.body) :
            doc.body[k].tag \in {"img", "iframe", "source", "video"} =>
                /\ Answered(doc.body[k].src) =>
                      Relinked(doc.body[k].src, OutOf(doc.body[k]).src)
                /\ Answered(doc.body[k].poster) =>
                      Relinked(doc.body[k].poster, OutOf(doc.body[k]).poster)

\* Entry e of a srcset reads in the output as entry o: the descriptor is the
\* same, and the URL is the localized path when it was localized and the
\* original token otherwise.
EntryRewritten(e, o) ==
    /\ o.desc = e.desc
    /\ o.url = IF /\ absolutize(StartUrl, e.url) # NoUrl
                  /\ norm_url(absolutize(StartUrl, e.url)) \in DOMAIN asset_map
               THEN Relative(asset_map[norm_url(absolutize(StartUrl, e.url))])
               ELSE e.url

\* C27: srcset rewriting is per entry.  In the index.html of a completed
\* build the srcset of every <img> and <source> has the entries of the
\* input, in their order, each with its descriptor, the URL of an entry
\* replaced by the local path exactly when that URL was localized, whatever
\* became of the other entries.
C27_SrcsetPerEntry ==
    pc = "done" =>
        \A k \in 1..Len(doc.body) :
            doc.body[k].tag \in {"img", "source"} =>
                /\ Len(OutOf(doc.body[k]).srcset) = Len(doc.body[k].srcset)
                /\ \A i \in 1..Len(doc.body[k].srcset) :
                      EntryRewritten(doc.body[k].srcset[i], OutOf(doc.body[k]).srcset[i])

\* A srcset of which the second entry was localized and the first failed.
C27_Witness ==
    /\ pc = "done"
    /\ \E k \in 1..Len(doc.body) :
          /\ Len(doc.body[k].srcset) = 2
          /\ OutOf(doc.body[k]).srcset[1] = doc.body[k].srcset[1]
          /\ OutOf(doc.body[k]).srcset[2].url # doc.body[k].srcset[2].url

\* The form that two URLs share when they differ only in fragment, in the
\* letter case of the authority or in '.' and '..' segments: the query and a
\* trailing slash are part of it.
Canon(u) == Url(u.scheme, Lower(u.host), RemoveDots(u.segs, <<>>), u.trail, u.query, "")

\* The <img> elements of the start page whose src resolves to a URL that
\* answered.
AnsweredImgs ==
    {e \in Range(doc.body) :
        /\ e.tag = "img"
        /\ absolutize(StartUrl, e.src) # NoUrl
        /\ Canon(absolutize(StartUrl, e.src)) \in up}

\* How many requests went out for URLs of the form that u has.
RequestsFor(u) ==
    Cardinality({i \in 1..Len(fetched) : Canon(fetched[i]) = Canon(u)})

\* C28: two raw URLs are the same asset exactly when their canonical forms
\* are equal.  In a completed build, two <img> references whose URLs answered
\* read as the same local path exactly when the URLs differ at most in
\* fragment, authority letter case and '.'/'..' segments; such a URL was
\* requested once and has one file, and URLs that differ in the query or in a
\* trailing slash have records and files of their own.
C28_SameAssetIffCanonEqual ==
    pc = "done" =>
        \A e \in AnsweredImgs :
            /\ OutOf(e).src.k = "rel"
            /\ OutOf(e).src.u.segs \in DOMAIN files
            /\ RequestsFor(absolutize(StartUrl, e.src)) = 1
            /\ Cardinality(AssetFilesFrom(Canon(absolutize(StartUrl, e.src)))) = 1
            /\ \A d \in AnsweredImgs :
                  (OutOf(d).src = OutOf(e).src) <=>
                  (Canon(absolutize(StartUrl, d.src)) = Canon(absolutize(StartUrl, e.src)))

\* A completed build whose start page names /a.png under two spellings and
\* /a.png?v=2 beside it, all of them answered: two records, two requests.
C28_Witness ==
    /\ pc = "done"
    /\ \E d, e \in AnsweredImgs :
          /\ d.src # e.src
          /\ absolutize(StartUrl, d.src) # absolutize(StartUrl, e.src)
          /\ Canon(absolutize(StartUrl, d.src)) = Canon(absolutize(StartUrl, e.src))
    /\ \E d, e \in AnsweredImgs :
          /\ absolutize(StartUrl, d.src).query # absolutize(StartUrl, e.src).query
          /\ OutOf(d).src # OutOf(e).src
    /\ Len(fetched) = 3

\* A completed build whose start page names /a.png and /a.png/, both
\* answered, each with a file of its own.
C28_WitnessSlash ==
    /\ pc = "done"
    /\ {A_PNG, [A_PNG EXCEPT !.trail = TRUE]} \subseteq DOMAIN asset_map
    /\ asset_map[A_PNG] # asset_map[[A_PNG EXCEPT !.trail = TRUE]]

\* The url()/@import occurrences of styles.css, as <<fragment, occurrence>>.
StylesRefs ==
    {t \in UNION {{<<f, i>> : i \in 1..Len(files[StylesCss][f].items)} :
                    f \in 1..Len(files[StylesCss])} : TRUE}

\* Occurrence t of styles.css reads as a path into the bundle: '../../'
\* followed by the path of a file that was written.
ReadsLocal(t) ==
    \E p \in DOMAIN files \ BundleFiles :
        files[StylesCss][t[1]].items[t[2]].href = UpUp(p)

\* Occurrence t of styles.css still names, from where its text came from
\* (the start page for an inline fragment), a URL of the site that has not
\* failed to answer.
NamesFetchable(t) ==
    LET base == IF files[StylesCss][t[1]].src = NoUrl THEN StartUrl
                ELSE files[StylesCss][t[1]].src
        u == absolutize(base, files[StylesCss][t[1]].items[t[2]].href)
    IN u # NoUrl /\ norm_url(u) \in SiteAssets \ dn

\* C29: every fetchable url()/@import reference of the consolidated
\* styles.css reads as a local bundle path, whether its text came from an
\* external stylesheet or from an inline <style> of the head.
C29_StylesRelinked ==
    pc = "done" =>
        \A t \in StylesRefs : ReadsLocal(t) \/ ~NamesFetchable(t)

\* The same for the text that came from external stylesheets only.
C29_ExternalRelinked ==
    pc = "done" =>
        \A t \in StylesRefs :
            files[StylesCss][t[1]].src # NoUrl => (ReadsLocal(t) \/ ~NamesFetchable(t))

\* C30: norm_url is idempotent.  For every URL, one with an empty path
\* included, norm_url applied to the result of norm_url gives that result
\* again, so that the cache key of a URL normalized twice is the key of the
\* URL normalized once.
C30_NormUrlIdempotent ==
    Len(to_visit) = 2 => to_visit[2] = to_visit[1]

\* The same for the URLs that have a path, "/" included.
C30_IdempotentWithPath ==
    (Len(to_visit) = 2 /\ ~(opts.url.segs = <<>> /\ ~opts.url.trail)) =>
        to_visit[2] = to_visit[1]

\* The canonical URLs that the stylesheets linked from the start page's head
\* name, directly or through the text of the stylesheets they reference.
ReferencedByStylesheets ==
    Reach({HeadUrl(el) : el \in {e \in Range(doc.head) : IsStylesheetLink(e)}}, {})

\* C31: rewriting a stylesheet requests only URLs that the text of a
\* stylesheet, as served, references: no request goes out for a URL obtained
\* by resolving an already localized '../../assets/...' path against the
\* stylesheet's source URL.
C31_FetchesOnlyReferenced ==
    \A i \in 1..Len(fetched) :
        norm_url(fetched[i]) \in ReferencedByStylesheets \cup {norm_url(StartUrl)}

\* The step requests robots.txt.
RobotsRequested ==
    \E i \in (Len(fetched) + 1)..Len(fetched') : fetched'[i] = ROBOTS

\* C32: the robots check fails open.  An iteration of the crawl loop whose
\* URL passes the origin and prefix gates while robots.txt does not answer
\* requests the page, whatever robots.txt would disallow; an iteration that
\* passes those gates and requests no page has asked for robots.txt, had it
\* answered, and took a URL that it disallows.
C32_RobotsFailOpen ==
    [][ (pc = "loop" /\ dequeued' # dequeued
         /\ SameOriginAsStart(Taken) /\ UnderPrefix(Taken)) =>
          /\ (opts.respect_robots /\ ROBOTS \in dn') => PageRequested
          /\ ~PageRequested =>
                /\ opts.respect_robots
                /\ RobotsRequested
                /\ ROBOTS \in up'
                /\ Taken \in RobotsDisallowed
      ]_vars

\* A crawl that respects robots has requested a page that robots.txt
\* disallows, robots.txt not having answered.
C32_Witness ==
    /\ opts.mode = "crawl" /\ opts.respect_robots
    /\ ROBOTS \in dn
    /\ \E i, j \in 1..Len(fetched) :
          /\ i < j
          /\ fetched[i] = ROBOTS
          /\ fetched[j] \in RobotsDisallowed

\* The written index.html refers to styles.css, to main.js and to every
\* script that was kept apart.
IndexRefersToBundle ==
    /\ LinkTag \in Range(OutHead)
    /\ ScriptTag \in Range(OutHead)
    /\ \A k \in 1..Len(cons.extra_script_srcs) :
          \E j \in 1..Len(OutHead) :
              /\ OutHead[j].tag = "script"
              /\ OutHead[j].href = Relative(cons.extra_script_srcs[k])

\* C33: the index.html of a completed build has the stylesheet link to
\* assets/css/styles.css, the script reference to assets/js/main.js and every
\* extra-script reference, also when the parsed start document has no <head>
\* element.
C33_IndexRefersToBundle ==
    pc = "done" => IndexRefersToBundle

\* The same for the start documents that have a <head> element.
C33_WithHead ==
    (pc = "done" /\ doc.has_head) => IndexRefersToBundle

\* The request carries "bytes=<start>-<end>" or "bytes=-<n>".
SingleOrSuffixRange ==
    /\ download.has_bytes
    /\ \A i \in 1..Len(download.ranges) : download.ranges[i] # Comma
    /\ download.ranges[Len(download.ranges)] # Dash

\* The answer is 206 with a range inside the file, or it is 416.
InsideFileOr416 ==
    \/ download.answer.status_code = 416
    \/ /\ download.answer.status_code = 206
       /\ 0 <= download.answer.start
       /\ download.answer.start <= download.answer.end
       /\ download.answer.end <= download.total - 1
       /\ download.content_length = download.answer.end - download.answer.start + 1
       /\ download.content_length > 0

\* C34: for every header "bytes=<start>-<end>" or "bytes=-<n>" with integer
\* fields and every file size of at least 1, a 206 answer has
\* 0 <= start <= end <= total - 1, so that Content-Range is inside the file
\* and Content-Length is positive, and every other such request is answered
\* 416.
C34_RangeInsideFile ==
    (download.answered /\ SingleOrSuffixRange) => InsideFileOr416

\* The same for the headers whose fields are written with digits only.
C34_DigitsOnly ==
    (/\ download.answered /\ SingleOrSuffixRange
     /\ Cardinality({i \in 1..Len(download.ranges) : download.ranges[i] = Dash}) = 1) =>
        InsideFileOr416

====
